---- MODULE Spec2Model ----
(***************************************************************************)
(* Cavity mode viewer: the shared core (cavity-core.js), the main viewer   *)
(* page (app.js) and the mode-scan page (mode-scan script).                *)
(*                                                                         *)
(* Number representation.  JavaScript numbers are modelled in exact        *)
(* arithmetic:                                                             *)
(*   - a length handed to computeCavityMode is an integer count of length  *)
(*     units; one unit is 10^u / LenQ millimetres, u being the "unit       *)
(*     exponent" carried with the geometry (u = 0 on both pages);          *)
(*   - ratios (g1, g2, the ABCD entries) are normalised fractions          *)
(*     [n |-> numerator, d |-> denominator > 0];                            *)
(*   - the wavelength is in nanometres, the index in hundredths;           *)
(*   - the non-finite doubles are the strings "NaN", "Infinity" and        *)
(*     "-Infinity".                                                        *)
(***************************************************************************)
EXTENDS Integers, Sequences, FiniteSets, TLC

(***************************************************************************)
(* Fixed-point scales of the model.                                        *)
(***************************************************************************)
LenQ == 2          \* length units per millimetre (half-millimetre grid)
NQ == 100          \* index units per 1.0
GQ == 10000        \* denominator of the g values tried on stabilityLabel

(***************************************************************************)
(* Exact fractions.                                                        *)
(***************************************************************************)
Abs(x) == IF x < 0 THEN -x ELSE x

RECURSIVE GCD(_, _)
GCD(a, b) == IF b = 0 THEN a ELSE GCD(b, a % b)

Rat(n, d) ==
  LET s == IF d < 0 THEN -1 ELSE 1
      g == GCD(Abs(n), Abs(d))
  IN  [n |-> (s * n) \div g, d |-> (s * d) \div g]

RInt(k) == [n |-> k, d |-> 1]

RMul(a, b) ==
  LET g1 == GCD(Abs(a.n), b.d)
      g2 == GCD(Abs(b.n), a.d)
  IN  Rat((a.n \div g1) * (b.n \div g2), (a.d \div g2) * (b.d \div g1))

RAdd(a, b) ==
  LET g == GCD(a.d, b.d)
  IN  Rat(a.n * (b.d \div g) + b.n * (a.d \div g), (a.d \div g) * b.d)

RNeg(a) == [n |-> -a.n, d |-> a.d]
RSub(a, b) == RAdd(a, RNeg(b))
RAbs(a) == [n |-> Abs(a.n), d |-> a.d]
RLt(a, b) == a.n * b.d < b.n * a.d
RLe(a, b) == a.n * b.d <= b.n * a.d
RHalf(a) == Rat(a.n, 2 * a.d)

(***************************************************************************)
(* cavity-core.js: constants.                                              *)
(***************************************************************************)
DEFAULT_CAVITY_STATE ==
  [r1Mm |-> 50 * LenQ, r2Mm |-> 50 * LenQ, lMm |-> 40 * LenQ,
   wavelengthNm |-> 780, nCenter |-> 1 * NQ]

CAVITY_LIMITS ==
  [r1Mm |-> [min |-> 1 * LenQ, max |-> 1000 * LenQ],
   r2Mm |-> [min |-> 1 * LenQ, max |-> 1000 * LenQ],
   lMm |-> [min |-> 1 * LenQ, max |-> 1000 * LenQ],
   wavelengthNm |-> [min |-> 400, max |-> 2000],
   nCenter |-> [min |-> 1 * NQ, max |-> 3 * NQ]]

\* EXACT_TOL = 1e-3 and NEAR_TOL = 0.08 as fractions
EXACT_TOL == [n |-> 1, d |-> 1000]
NEAR_TOL == [n |-> 2, d |-> 25]

(***************************************************************************)
(* The three non-finite doubles.  They are integers outside every range    *)
(* the model computes with, so that the order of the infinities is the     *)
(* order of the integers; NaN is tested for explicitly wherever            *)
(* JavaScript treats it specially.                                         *)
(***************************************************************************)
PosInf == 2000000000
NegInf == -2000000000
NaN == -2000000001

NumberIsFinite(v) == v # NaN /\ v # PosInf /\ v # NegInf

MathMax(a, b) == IF a = NaN \/ b = NaN THEN NaN ELSE IF a >= b THEN a ELSE b
MathMin(a, b) == IF a = NaN \/ b = NaN THEN NaN ELSE IF a <= b THEN a ELSE b

clamp(value, min, max) == MathMin(MathMax(value, min), max)

(***************************************************************************)
(* Number.prototype.toFixed(digits) of the fraction r, as the integer      *)
(* round(r * 10^digits), ties away from zero; long division keeps every    *)
(* intermediate value small.                                               *)
(***************************************************************************)
RECURSIVE FixDigits(_, _, _, _)
FixDigits(rem, d, k, acc) ==
  IF k = 0 THEN acc + (IF 2 * rem >= d THEN 1 ELSE 0)
  ELSE FixDigits((rem * 10) % d, d, k - 1, acc * 10 + ((rem * 10) \div d))

toFixed(r, digits) ==
  LET a == Abs(r.n)
      mag == FixDigits(a % r.d, r.d, digits, a \div r.d)
  IN  IF r.n < 0 THEN -mag ELSE mag

(***************************************************************************)
(* Magnitudes.  The beam radius is an irrational function of the geometry; *)
(* its size is carried as a positive decimal float [m, e] = m * 10^e with  *)
(* a four-digit mantissa 1000..9999.  Every test that decides an outcome   *)
(* (an error, a zero, a NaN, an infinity) is made on exact fractions, the  *)
(* decimal floats only size a radius already known to be finite and > 0.   *)
(***************************************************************************)
RECURSIVE DFNorm(_, _)
DFNorm(m, e) ==
  IF m >= 10000 THEN DFNorm(m \div 10, e + 1)
  ELSE IF m < 1000 THEN DFNorm(m * 10, e - 1)
  ELSE [m |-> m, e |-> e]

Pow10(k) == CASE k = 0 -> 1 [] k = 1 -> 10 [] k = 2 -> 100 [] k = 3 -> 1000
              [] k = 4 -> 10000 [] k = 5 -> 100000 [] k = 6 -> 1000000
              [] k = 7 -> 10000000 [] k = 8 -> 100000000
              [] OTHER -> 1000000000

DFInt(k) == DFNorm(k, 0)
DFRat(r) == LET a == DFInt(r.n)
                b == DFInt(r.d)
            IN  DFNorm((a.m * 10000) \div b.m, a.e - b.e - 4)
DFMul(a, b) == DFNorm(a.m * b.m, a.e + b.e)
DFDiv(a, b) == DFNorm((a.m * 10000) \div b.m, a.e - b.e - 4)
DFAdd(a, b) ==
  LET hi == IF a.e >= b.e THEN a ELSE b
      lo == IF a.e >= b.e THEN b ELSE a
      sh == hi.e - lo.e
  IN  DFNorm(hi.m + (IF sh > 4 THEN 0 ELSE lo.m \div Pow10(sh)), hi.e)

RECURSIVE ISqrtIn(_, _, _)
ISqrtIn(x, lo, hi) ==
  IF lo >= hi THEN lo
  ELSE LET mid == (lo + hi + 1) \div 2
       IN  IF mid * mid <= x THEN ISqrtIn(x, mid, hi) ELSE ISqrtIn(x, lo, mid - 1)

DFSqrt(a) ==
  LET odd == (a.e % 2) # 0
      m == IF odd THEN a.m * 10 ELSE a.m
      e == IF odd THEN a.e - 1 ELSE a.e
  IN  DFNorm(ISqrtIn(m * 10000, 0, 40000), (e - 4) \div 2)

\* floor of a decimal float, saturating below the infinities
DFFloor(a) ==
  IF a.e >= 0 THEN (IF a.e > 5 THEN PosInf - 1 ELSE a.m * Pow10(a.e))
  ELSE (IF a.e < -4 THEN 0 ELSE a.m \div Pow10(-a.e))

DF_PI == [m |-> 3142, e |-> -3]

(***************************************************************************)
(* cavity-core.js: computeCavityMode.                                      *)
(***************************************************************************)
\* an Error message: its fixed text and, for the unstable-cavity message,
\* the three interpolated toFixed(4) numbers; NoError stands for null
Msg(text, a, b, c) == [text |-> text, g1 |-> a, g2 |-> b, g1g2 |-> c]
NoError == Msg("", 0, 0, 0)
ERR_ROC == "Mirror ROC must be positive."
ERR_LENGTH == "Cavity length must be positive."
ERR_INDEX == "Center refractive index must be positive."
ERR_UNSTABLE == "Unstable cavity: g1=, g2=, g1*g2=."
ERR_PLANAR == "Near-planar cavity (C ~ 0): Gaussian mode is not confined."

\* the mode object; NoMode stands for null
NoMode == [some |-> FALSE, g1 |-> RInt(0), g2 |-> RInt(0), wM1 |-> 0, wM2 |-> 0]

prop(distance) == << <<RInt(1), RInt(distance)>>, <<RInt(0), RInt(1)>> >>
mirror(radius) == << <<RInt(1), RInt(0)>>, <<Rat(-2, radius), RInt(1)>> >>
matMul(m1, m2) ==
  << <<RAdd(RMul(m1[1][1], m2[1][1]), RMul(m1[1][2], m2[2][1])),
       RAdd(RMul(m1[1][1], m2[1][2]), RMul(m1[1][2], m2[2][2]))>>,
     <<RAdd(RMul(m1[2][1], m2[1][1]), RMul(m1[2][2], m2[2][1])),
       RAdd(RMul(m1[2][1], m2[1][2]), RMul(m1[2][2], m2[2][2]))>> >>

\* mutant: the second reflection uses mirror 1 again
RoundTrip_SameMirror(r1, r2, length) ==
  matMul(matMul(matMul(mirror(r1), prop(length)), mirror(r1)), prop(length))

RoundTrip(r1, r2, length) ==
  matMul(matMul(matMul(mirror(r1), prop(length)), mirror(r2)), prop(length))

\* Math.abs((A + D) / 2) > 1 + 1e-9, for the fraction h = |(A + D) / 2|:
\* h.n * 10^9 > (10^9 + 1) * h.d, written without the large products
\* mutant: the marginally stable cavities (|(A + D) / 2| = 1) are rejected too
StabilityViolated_NoMargin(h) == h.n >= h.d

StabilityViolated(h) == (h.n - h.d) > (h.d \div 1000000000)

\* mutant: the threshold is one per length unit in place of 1e-14 per metre
DegenerateC_Coarse(c, u) == Abs(c.n) < c.d

\* Math.abs(C) < 1e-14 with C in 1/metre; c is in 1/unit, one unit being
\* 10^u / (1000 * LenQ) metres: |c.n| * LenQ * 10^(17 - u) < c.d
DegenerateC(c, u) ==
  IF c.n = 0 THEN TRUE
  ELSE IF u >= 17 THEN Abs(c.n) * LenQ < c.d * Pow10(u - 17)
  ELSE IF 17 - u > 8 THEN FALSE     \* c.d is below 10^9
  ELSE Abs(c.n) * LenQ * Pow10(17 - u) < c.d

sampleCount == 1000

\* w[i] in micrometres (rounded down), or NaN / PosInf
BeamRadius(i, length, wavelength, nCenter, u, A, C, D) ==
  LET s == RAdd(A, D)
      discPos == RLt(RAbs(s), RInt(2))          \* disc = max(0, 4 - s^2) > 0
      qReal == RMul(RSub(A, D), Rat(C.d, 2 * C.n))
      zi == Rat(length * i, sampleCount - 1)
      re == RAdd(qReal, zi)
      unitM == DFDiv(DFNorm(1, u - 3), DFInt(LenQ))
      lambdaMedium == DFDiv(DFNorm(wavelength * NQ, -9), DFInt(nCenter))
      qImag == DFDiv(DFSqrt(DFMul(DFRat(RSub(RInt(2), s)), DFRat(RAdd(RInt(2), s)))),
                     DFRat(RAbs(RMul(RInt(2), C))))
      qq == DFMul(qImag, qImag)
      denom == IF re.n = 0 THEN qq ELSE DFAdd(DFMul(DFRat(RAbs(re)), DFRat(RAbs(re))), qq)
      \* -1 / invImag = denom / qImag, in metres
      negInv == DFMul(DFDiv(denom, qImag), unitM)
      w2 == DFDiv(DFMul(lambdaMedium, negInv), DF_PI)
      wUm == LET w == DFSqrt(w2) IN DFFloor([m |-> w.m, e |-> w.e + 6])
  IN  IF ~discPos
        THEN (IF re.n = 0 THEN NaN                \* -0 / 0
              ELSE IF wavelength > 0 THEN PosInf  \* -lambda / -0
              ELSE NaN)                           \* sqrt(-Infinity), 0 / 0
      ELSE IF wavelength < 0 THEN NaN
      ELSE IF wavelength = 0 THEN 0
      ELSE wUm

\* mutant: the degeneracy test comes before the stability test
SolveMode_PlanarFirst(r1, r2, length, wavelength, nCenter, u) ==
  LET M == RoundTrip(r1, r2, length)
      A == M[1][1]
      C == M[2][1]
      D == M[2][2]
      g1 == RSub(RInt(1), Rat(length, r1))
      g2 == RSub(RInt(1), Rat(length, r2))
  IN  IF DegenerateC(C, u)
        THEN [error |-> Msg(ERR_PLANAR, 0, 0, 0), mode |-> NoMode]
      ELSE IF StabilityViolated(RAbs(RHalf(RAdd(A, D))))
        THEN [error |-> Msg(ERR_UNSTABLE, toFixed(g1, 4), toFixed(g2, 4),
                            toFixed(RMul(g1, g2), 4)),
              mode |-> NoMode]
      ELSE [error |-> NoError,
            mode |-> [some |-> TRUE, g1 |-> g1, g2 |-> g2,
                      wM1 |-> BeamRadius(0, length, wavelength, nCenter, u, A, C, D),
                      wM2 |-> BeamRadius(sampleCount - 1, length, wavelength,
                                         nCenter, u, A, C, D)]]

\* lines 89-160: the part of computeCavityMode after the argument checks
SolveMode(r1, r2, length, wavelength, nCenter, u) ==
  LET M == RoundTrip(r1, r2, length)
      A == M[1][1]
      C == M[2][1]
      D == M[2][2]
      g1 == RSub(RInt(1), Rat(length, r1))
      g2 == RSub(RInt(1), Rat(length, r2))
  IN  IF StabilityViolated(RAbs(RHalf(RAdd(A, D))))
        THEN [error |-> Msg(ERR_UNSTABLE, toFixed(g1, 4), toFixed(g2, 4),
                            toFixed(RMul(g1, g2), 4)),
              mode |-> NoMode]
      ELSE IF DegenerateC(C, u)
        THEN [error |-> Msg(ERR_PLANAR, 0, 0, 0), mode |-> NoMode]
      ELSE [error |-> NoError,
            mode |-> [some |-> TRUE, g1 |-> g1, g2 |-> g2,
                      wM1 |-> BeamRadius(0, length, wavelength, nCenter, u, A, C, D),
                      wM2 |-> BeamRadius(sampleCount - 1, length, wavelength,
                                         nCenter, u, A, C, D)]]

\* mutant: the index check comes before the length check
computeCavityMode_IndexFirst(r1, r2, length, wavelength, nCenter, u) ==
  IF r1 <= 0 \/ r2 <= 0 THEN [error |-> Msg(ERR_ROC, 0, 0, 0), mode |-> NoMode]
  ELSE IF nCenter <= 0 THEN [error |-> Msg(ERR_INDEX, 0, 0, 0), mode |-> NoMode]
  ELSE IF length <= 0 THEN [error |-> Msg(ERR_LENGTH, 0, 0, 0), mode |-> NoMode]
  ELSE SolveMode(r1, r2, length, wavelength, nCenter, u)

\* mutant: the length check is missing
computeCavityMode_NoLengthCheck(r1, r2, length, wavelength, nCenter, u) ==
  IF r1 <= 0 \/ r2 <= 0 THEN [error |-> Msg(ERR_ROC, 0, 0, 0), mode |-> NoMode]
  ELSE IF nCenter <= 0 THEN [error |-> Msg(ERR_INDEX, 0, 0, 0), mode |-> NoMode]
  ELSE SolveMode(r1, r2, length, wavelength, nCenter, u)

computeCavityMode(r1, r2, length, wavelength, nCenter, u) ==
  IF r1 <= 0 \/ r2 <= 0 THEN [error |-> Msg(ERR_ROC, 0, 0, 0), mode |-> NoMode]
  ELSE IF length <= 0 THEN [error |-> Msg(ERR_LENGTH, 0, 0, 0), mode |-> NoMode]
  ELSE IF nCenter <= 0 THEN [error |-> Msg(ERR_INDEX, 0, 0, 0), mode |-> NoMode]
  ELSE SolveMode(r1, r2, length, wavelength, nCenter, u)

(***************************************************************************)
(* cavity-core.js: stabilityLabel.  A label is <<name, colour>>; a NEAR-   *)
(* label is the name with the prefix "NEAR-".                              *)
(***************************************************************************)
special ==
  << [label |-> "CONFOCAL", near |-> "NEAR-CONFOCAL", g1Target |-> 0, g2Target |-> 0,
      color |-> "#267246"],
     [label |-> "CONCENTRIC", near |-> "NEAR-CONCENTRIC", g1Target |-> -1, g2Target |-> -1,
      color |-> "#8a5a00"],
     [label |-> "PLANAR", near |-> "NEAR-PLANAR", g1Target |-> 1, g2Target |-> 1,
      color |-> "#8a5a00"] >>

Within(g, target, tol) == RLe(RAbs(RSub(g, RInt(target))), tol)

\* the first entry of special, from index k on, that matches within tol; 0 if none
RECURSIVE FirstMatch(_, _, _, _)
FirstMatch(g1, g2, tol, k) ==
  IF k > Len(special) THEN 0
  ELSE IF Within(g1, special[k].g1Target, tol) /\ Within(g2, special[k].g2Target, tol)
    THEN k
  ELSE FirstMatch(g1, g2, tol, k + 1)

\* mutant: the near test runs before the exact test
stabilityLabel_NearFirst(g1, g2) ==
  LET exact == FirstMatch(g1, g2, EXACT_TOL, 1)
      near == FirstMatch(g1, g2, NEAR_TOL, 1)
      p == RMul(g1, g2)
  IN  IF near # 0 THEN <<special[near].near, special[near].color>>
      ELSE IF exact # 0 THEN <<special[exact].label, special[exact].color>>
      ELSE IF RLe(RInt(0), p) /\ RLe(p, RInt(1)) THEN <<"STABLE", "#267246">>
      ELSE <<"UNSTABLE", "#b33f3f">>

stabilityLabel(g1, g2) ==
  LET exact == FirstMatch(g1, g2, EXACT_TOL, 1)
      near == FirstMatch(g1, g2, NEAR_TOL, 1)
      p == RMul(g1, g2)
  IN  IF exact # 0 THEN <<special[exact].label, special[exact].color>>
      ELSE IF near # 0 THEN <<special[near].near, special[near].color>>
      ELSE IF RLe(RInt(0), p) /\ RLe(p, RInt(1)) THEN <<"STABLE", "#267246">>
      ELSE <<"UNSTABLE", "#b33f3f">>

(***************************************************************************)
(* cavity-core.js: reading the cavity state from the query string.         *)
(* A query parameter is [kind, v]: absent (params.get gives null), the     *)
(* empty string, a decimal number v, the text "Infinity", or other text.   *)
(***************************************************************************)
Absent == [kind |-> "absent", v |-> 0]
EmptyParam == [kind |-> "empty", v |-> 0]
TextParam == [kind |-> "text", v |-> 0]
InfinityParam == [kind |-> "Infinity", v |-> 0]
NumParam(v) == [kind |-> "number", v |-> v]
\* values of a state object: a double (NaN and the infinities included) and
\* undefined, a field that is missing
Double(v) == [kind |-> "double", v |-> v]
Undefined == [kind |-> "undefined", v |-> 0]

\* Number(value): null and "" convert to 0, unparsable text to NaN
ToNumber(value) ==
  CASE value.kind = "absent" -> 0
    [] value.kind = "empty" -> 0
    [] value.kind = "number" -> value.v
    [] value.kind = "double" -> value.v
    [] value.kind = "Infinity" -> PosInf
    [] OTHER -> NaN

\* mutant: a finite number is passed through without clamping
sanitizeNumber_NoClamp(value, fallback, limits) ==
  LET parsed == ToNumber(value)
  IN  IF ~NumberIsFinite(parsed) THEN fallback ELSE parsed

sanitizeNumber(value, fallback, limits) ==
  LET parsed == ToNumber(value)
  IN  IF ~NumberIsFinite(parsed) THEN fallback
      ELSE clamp(parsed, limits.min, limits.max)

CavityKeys == {"r1Mm", "r2Mm", "lMm", "wavelengthNm", "nCenter"}

sanitizeCavityState(source) ==
  [key \in CavityKeys |->
     sanitizeNumber(source[key], DEFAULT_CAVITY_STATE[key], CAVITY_LIMITS[key])]

readCavityStateFromSearch(params) == sanitizeCavityState(params)

\* mutant: the text keeps the integer part of the number only
NumberToString_Truncated(v) == NumParam((v \div LenQ) * LenQ)

\* String(value) of a finite double: the decimal text that Number() reads
\* back as the same double
NumberToString(v) == NumParam(v)

\* the query string that url.searchParams.set builds, key by key
QueryOf(cleanState) == [key \in CavityKeys |-> NumberToString(cleanState[key])]

\* buildModeScanUrl(baseHref, cavityState) and buildViewerUrl(baseHref,
\* cavityState): the page of the URL and its query string
buildModeScanUrl(cavityState_) ==
  [page |-> "scan", search |-> QueryOf(sanitizeCavityState(cavityState_))]
buildViewerUrl(cavityState_) ==
  [page |-> "viewer", search |-> QueryOf(sanitizeCavityState(cavityState_))]

(***************************************************************************)
(* Mode-scan page: constants and pure helpers.                             *)
(* The five step-1 controls are held in units of 1 / LenQ of their unit,   *)
(* so that Math.round has something to round.  The waist is held in units  *)
(* of 1 / FineQ micrometre: the multiples of FineQ are the doubles with at *)
(* most nine significant digits, the values between two multiples differ   *)
(* from them only beyond the ninth digit.                                  *)
(***************************************************************************)
FineQ == 4

\* step is in thousandths
SIM_DEFS ==
  << [key |-> "xOffUm", min |-> 0, max |-> 1000 * LenQ, step |-> 1000, digits |-> 0],
     [key |-> "yOffUm", min |-> 0, max |-> 1000 * LenQ, step |-> 1000, digits |-> 0],
     [key |-> "scanRangeFsr", min |-> 1 * LenQ, max |-> 5 * LenQ, step |-> 1000, digits |-> 0],
     [key |-> "nMax", min |-> 1 * LenQ, max |-> 15 * LenQ, step |-> 1000, digits |-> 0],
     [key |-> "beamWaistMm", min |-> 5 * FineQ, max |-> 5000 * FineQ, step |-> 1, digits |-> 3],
     [key |-> "beamRocMm", min |-> 1 * LenQ, max |-> 2000 * LenQ, step |-> 1000, digits |-> 0] >>

SimKeys == {SIM_DEFS[k].key : k \in 1..Len(SIM_DEFS)}
DefOf(key) == SIM_DEFS[CHOOSE k \in 1..Len(SIM_DEFS) : SIM_DEFS[k].key = key]

FIXED_SETTINGS == [mirrorReflectivity |-> 995, nPix |-> 96, nScan |-> 481, fovFactor |-> 4]

\* k * v for a positive factor k
NumTimes(k, v) == IF NumberIsFinite(v) THEN k * v ELSE v

\* Math.round (floor(x + 1/2)) of a value held in units of 1 / LenQ
MathRound(v) ==
  IF NumberIsFinite(v) THEN ((2 * v + LenQ) \div (2 * LenQ)) * LenQ ELSE v

\* Number.prototype.toPrecision(9) of a waist or radius held in units of
\* 1 / FineQ micrometre: the nearest double of nine significant digits
toPrecision9(v) ==
  IF NumberIsFinite(v) THEN ((2 * v + FineQ) \div (2 * FineQ)) * FineQ ELSE v

\* cavityMode.wM1 (micrometres) in the units of the waist
WaistUnits(w) == NumTimes(FineQ, w)

matchedBeamDefaults(cavityMode_, cavityState_) ==
  IF ~cavityMode_.some
    THEN [beamWaistMm |-> 300 * FineQ, beamRocMm |-> cavityState_.r1Mm]
    ELSE [beamWaistMm |-> WaistUnits(cavityMode_.wM1), beamRocMm |-> cavityState_.r1Mm]

InitialState(cavityMode_, cavityState_) ==
  LET matched == matchedBeamDefaults(cavityMode_, cavityState_)
  IN  [xOffUm |-> 0, yOffUm |-> 0, scanRangeFsr |-> 2 * LenQ, nMax |-> 10 * LenQ,
       beamWaistMm |-> matched.beamWaistMm, beamRocMm |-> matched.beamRocMm]

\* mutant: the value is written back unclamped
syncControl_NoClamp(st, key) ==
  LET def == DefOf(key)
      isInteger == def.step = 1000 /\ def.digits = 0
      value == IF isInteger THEN MathRound(st[key]) ELSE st[key]
  IN  [st EXCEPT ![key] = value]

\* the state after syncControl(key)
syncControl(st, key) ==
  LET def == DefOf(key)
      isInteger == def.step = 1000 /\ def.digits = 0
      value == IF isInteger THEN clamp(MathRound(st[key]), def.min, def.max)
               ELSE clamp(st[key], def.min, def.max)
  IN  [st EXCEPT ![key] = value]

\* SIM_DEFS.forEach((def) => syncControl(def.key)): each call reads and
\* writes the one key it is given
SyncAll(st) == [key \in SimKeys |-> syncControl(st, key)[key]]

(***************************************************************************)
(* Mode-scan page: the basis cache.  A basis object is its identity (its   *)
(* key and id, the count of objects built for that key so far) and what    *)
(* its arrays are computed from: the                                       *)
(* half width of the grid, the mirror radius and curvature, the wavelength *)
(* and the maximum order.  The cache is a set of [key, basis] entries.     *)
(***************************************************************************)
NoBasis == [id |-> 0, halfSize |-> 0, wMirror |-> 0, mirrorRoc |-> 0,
            wavelength |-> RInt(0), nMax |-> 0]

\* the key of getBasis.  mirrorRoc is a multiple of 1 / LenQ mm up to 1 m and
\* the wavelength is fixed once the page has loaded: toPrecision(9) tells
\* any two of the values they take apart, and they stand for their texts.
BasisKey(wMirror, mirrorRoc, wavelength, beamWaist, nMax) ==
  <<toPrecision9(wMirror), mirrorRoc, wavelength, toPrecision9(beamWaist),
    FIXED_SETTINGS.nPix, FIXED_SETTINGS.fovFactor, nMax>>

\* a basis object built for the key: the gen-th one built for it
BuildBasis(gen, wMirror, mirrorRoc, wavelength, beamWaist, nMax) ==
  [id |-> gen,
   halfSize |-> NumTimes(FIXED_SETTINGS.fovFactor, MathMax(wMirror, beamWaist)),
   wMirror |-> wMirror, mirrorRoc |-> mirrorRoc, wavelength |-> wavelength,
   nMax |-> nMax]

\* mutant: the basis is rebuilt and stored again on every call
getBasis_AlwaysRebuild(cache, wMirror, mirrorRoc, wavelength, beamWaist, nMax) ==
  LET key == BasisKey(wMirror, mirrorRoc, wavelength, beamWaist, nMax)
      old == {e \in cache : e.key = key}
      gen == IF old = {} THEN 1 ELSE 1 + (CHOOSE e \in old : TRUE).basis.id
      basis == BuildBasis(gen, wMirror, mirrorRoc, wavelength, beamWaist, nMax)
  IN  [basis |-> basis, key |-> key, hit |-> FALSE,
       cache |-> (cache \ old) \cup {[key |-> key, basis |-> basis]}]

\* the basis returned, its key, whether it was found, and the cache afterwards
getBasis(cache, wMirror, mirrorRoc, wavelength, beamWaist, nMax) ==
  LET key == BasisKey(wMirror, mirrorRoc, wavelength, beamWaist, nMax)
  IN  IF \E e \in cache : e.key = key
        THEN [basis |-> (CHOOSE e \in cache : e.key = key).basis, key |-> key,
              hit |-> TRUE, cache |-> cache]
        ELSE LET basis == BuildBasis(1, wMirror, mirrorRoc, wavelength, beamWaist, nMax)
             IN  [basis |-> basis, key |-> key, hit |-> FALSE,
                  cache |-> cache \cup {[key |-> key, basis |-> basis]}]

(***************************************************************************)
(* Mode-scan page: simulateModeScan and render.  The numeric arrays of a   *)
(* simulation result are functions of the basis arrays and of the scalar   *)
(* inputs; a result is carried as exactly these: what the basis was built  *)
(* from (not its identity) and the scalars read by computeAxisOverlap,     *)
(* buildOrderImages and computeTransfer.                                   *)
(***************************************************************************)
ERR_UNAVAILABLE == "Cavity mode is unavailable."

NoResult ==
  [some |-> FALSE, halfSize |-> 0, wMirror |-> 0, mirrorRoc |-> 0,
   basisWavelength |-> RInt(0), basisNMax |-> 0, wavelength |-> RInt(0),
   beamWaist |-> 0, beamRoc |-> 0, xOff |-> 0, yOff |-> 0, nMax |-> 0,
   scanRange |-> 0, gProduct |-> RInt(0)]

ResultOf(basis, wavelength, gProduct, st) ==
  [some |-> TRUE, halfSize |-> basis.halfSize, wMirror |-> basis.wMirror,
   mirrorRoc |-> basis.mirrorRoc, basisWavelength |-> basis.wavelength,
   basisNMax |-> basis.nMax, wavelength |-> wavelength,
   beamWaist |-> st.beamWaistMm, beamRoc |-> st.beamRocMm,
   xOff |-> st.xOffUm, yOff |-> st.yOffUm, nMax |-> st.nMax,
   scanRange |-> st.scanRangeFsr, gProduct |-> gProduct]

NoGet == [basis |-> NoBasis, key |-> <<>>, hit |-> FALSE]

simulateModeScan(cavityMode_, cavityError_, cavityState_, st, cache) ==
  IF ~cavityMode_.some
    THEN [threw |-> TRUE,
          message |-> IF cavityError_ # NoError THEN cavityError_
                      ELSE Msg(ERR_UNAVAILABLE, 0, 0, 0),
          result |-> NoResult, basis |-> NoBasis, key |-> <<>>, hit |-> FALSE,
          cache |-> cache]
    ELSE
      LET wavelength == Rat(cavityState_.wavelengthNm * NQ, cavityState_.nCenter)
          r1 == cavityState_.r1Mm
          beamWaist == st.beamWaistMm
          got == getBasis(cache, WaistUnits(cavityMode_.wM1), r1, wavelength,
                          beamWaist, st.nMax)
      IN  [threw |-> FALSE, message |-> NoError,
           result |-> ResultOf(got.basis, wavelength,
                               RMul(cavityMode_.g1, cavityMode_.g2), st),
           basis |-> got.basis, key |-> got.key, hit |-> got.hit,
           cache |-> got.cache]

\* what one run of render() does: the state after the syncControl calls, the
\* cache afterwards, what drawCameraPlot, drawScanPlot and updateSummary are
\* handed (result, errorText), and the simulateModeScan call it made, if any
BlankState ==
  [xOffUm |-> 0, yOffUm |-> 0, scanRangeFsr |-> 0, nMax |-> 0, beamWaistMm |-> 0,
   beamRocMm |-> 0]
NoRender ==
  [rendered |-> FALSE, simCalled |-> FALSE, simIn |-> BlankState, result |-> NoResult,
   errorText |-> NoError, basis |-> NoBasis, key |-> <<>>, hit |-> FALSE]

\* mutant: the simulation is run although the cavity solver failed
render_IgnoresCavityError(cavityMode_, cavityError_, cavityState_, st, cache) ==
  LET st1 == SyncAll(st)
      run == simulateModeScan([cavityMode_ EXCEPT !.some = TRUE], cavityError_,
                              cavityState_, st1, cache)
  IN  [state |-> st1, cache |-> run.cache,
       seen |-> [rendered |-> TRUE, simCalled |-> TRUE, simIn |-> st1,
                 result |-> run.result, errorText |-> cavityError_,
                 basis |-> run.basis, key |-> run.key, hit |-> run.hit]]

render(cavityMode_, cavityError_, cavityState_, st, cache) ==
  LET st1 == SyncAll(st)
      run == simulateModeScan(cavityMode_, cavityError_, cavityState_, st1, cache)
  IN  IF cavityError_ # NoError
        THEN [state |-> st1, cache |-> cache,
              seen |-> [NoRender EXCEPT !.rendered = TRUE, !.errorText = cavityError_]]
        ELSE [state |-> st1, cache |-> run.cache,
              seen |-> [rendered |-> TRUE, simCalled |-> TRUE, simIn |-> st1,
                        result |-> run.result,
                        errorText |-> IF run.threw THEN run.message ELSE NoError,
                        basis |-> run.basis, key |-> run.key, hit |-> run.hit]]

(***************************************************************************)
(* Main viewer page (app.js).  r1Mm, r2Mm, lMm are in units of 1 / LenQ    *)
(* mm, wavelengthNm in nm, nCenter and yMaxMm in units of 1 / NQ.          *)
(***************************************************************************)
DEFAULT_STATE ==
  [r1Mm |-> 50 * LenQ, r2Mm |-> 50 * LenQ, lMm |-> 40 * LenQ, wavelengthNm |-> 780,
   nCenter |-> 1 * NQ, yMaxMm |-> NQ \div 2]

geometryDefs ==
  << [key |-> "r1Mm", min |-> 1 * LenQ, max |-> 1000 * LenQ],
     [key |-> "r2Mm", min |-> 1 * LenQ, max |-> 1000 * LenQ],
     [key |-> "lMm", min |-> 1 * LenQ, max |-> 1000 * LenQ] >>

opticsDefs ==
  << [key |-> "wavelengthNm", min |-> 400, max |-> 2000],
     [key |-> "nCenter", min |-> 1 * NQ, max |-> 3 * NQ],
     [key |-> "yMaxMm", min |-> NQ \div 100, max |-> 50 * NQ] >>

GeometryKeys == {geometryDefs[k].key : k \in 1..Len(geometryDefs)}
ViewerDefOf(key) ==
  LET all == geometryDefs \o opticsDefs
  IN  all[CHOOSE k \in 1..Len(all) : all[k].key = key]

\* mutant: the geometry value is rounded but not clamped
syncCenteredControl_NoClamp(st, key) == [st EXCEPT ![key] = MathRound(st[key])]

syncCenteredControl(st, key) ==
  LET def == ViewerDefOf(key)
  IN  [st EXCEPT ![key] = clamp(MathRound(st[key]), def.min, def.max)]

\* syncLinearControl copies the state into the inputs and leaves it as it is
syncLinearControl(st, key) == st

\* geometryDefs.forEach(syncCenteredControl); opticsDefs.forEach(syncLinearControl):
\* each call reads and writes the one key it is given
ViewerSyncAll(st) ==
  [key \in DOMAIN st |-> IF key \in GeometryKeys THEN syncCenteredControl(st, key)[key]
                         ELSE syncLinearControl(st, key)[key]]

\* the arguments render() of either page passes to computeCavityMode
NoArgs == [r1 |-> 0, r2 |-> 0, length |-> 0, wavelength |-> 0, nCenter |-> 0]
ArgsOf(st) ==
  [r1 |-> st.r1Mm, r2 |-> st.r2Mm, length |-> st.lMm,
   wavelength |-> st.wavelengthNm, nCenter |-> st.nCenter]

NoViewerSeen ==
  [rendered |-> FALSE, mode |-> NoMode, errorText |-> NoError,
   g1 |-> RInt(0), g2 |-> RInt(0), label |-> <<"", "">>]

(***************************************************************************)
(* app.js has its own copies of the solver and of the label (lines 158-264) *)
(* and of the two tolerances (lines 12-13); render() of app.js calls these. *)
(***************************************************************************)

VIEWER_EXACT_TOL == [n |-> 1, d |-> 1000]
VIEWER_NEAR_TOL == [n |-> 2, d |-> 25]

viewerProp(d) == << <<RInt(1), RInt(d)>>, <<RInt(0), RInt(1)>> >>
viewerMirror(radius) == << <<RInt(1), RInt(0)>>, <<Rat(-2, radius), RInt(1)>> >>
viewerMatMul(m1, m2) ==
  << <<RAdd(RMul(m1[1][1], m2[1][1]), RMul(m1[1][2], m2[2][1])),
       RAdd(RMul(m1[1][1], m2[1][2]), RMul(m1[1][2], m2[2][2]))>>,
     <<RAdd(RMul(m1[2][1], m2[1][1]), RMul(m1[2][2], m2[2][1])),
       RAdd(RMul(m1[2][1], m2[1][2]), RMul(m1[2][2], m2[2][2]))>> >>

viewerRoundTrip(r1, r2, length) ==
  viewerMatMul(viewerMatMul(viewerMatMul(viewerMirror(r1), viewerProp(length)), viewerMirror(r2)), viewerProp(length))

\* Math.abs((A + D) / 2) > 1 + 1e-9
viewerStabilityViolated(h) == (h.n - h.d) > (h.d \div 1000000000)

\* Math.abs(C) < 1e-14
viewerDegenerateC(c, u) ==
  IF c.n = 0 THEN TRUE
  ELSE IF u >= 17 THEN Abs(c.n) * LenQ < c.d * Pow10(u - 17)
  ELSE IF 17 - u > 8 THEN FALSE     \* c.d is below 10^9
  ELSE Abs(c.n) * LenQ * Pow10(17 - u) < c.d

viewerSampleCount == 1000

\* w[i] in micrometres (rounded down), or NaN / PosInf
viewerBeamRadius(i, length, wavelength, nCenter, u, A, C, D) ==
  LET s == RAdd(A, D)
      discPos == RLt(RAbs(s), RInt(2))          \* disc = max(0, 4 - s^2) > 0
      qReal == RMul(RSub(A, D), Rat(C.d, 2 * C.n))
      zi == Rat(length * i, viewerSampleCount - 1)
      re == RAdd(qReal, zi)
      unitM == DFDiv(DFNorm(1, u - 3), DFInt(LenQ))
      lambdaMedium == DFDiv(DFNorm(wavelength * NQ, -9), DFInt(nCenter))
      qImag == DFDiv(DFSqrt(DFMul(DFRat(RSub(RInt(2), s)), DFRat(RAdd(RInt(2), s)))),
                     DFRat(RAbs(RMul(RInt(2), C))))
      qq == DFMul(qImag, qImag)
      denom == IF re.n = 0 THEN qq ELSE DFAdd(DFMul(DFRat(RAbs(re)), DFRat(RAbs(re))), qq)
      \* -1 / invImag = denom / qImag, in metres
      negInv == DFMul(DFDiv(denom, qImag), unitM)
      w2 == DFDiv(DFMul(lambdaMedium, negInv), DF_PI)
      wUm == LET w == DFSqrt(w2) IN DFFloor([m |-> w.m, e |-> w.e + 6])
  IN  IF ~discPos
        THEN (IF re.n = 0 THEN NaN                \* -0 / 0
              ELSE IF wavelength > 0 THEN PosInf  \* -lambda / -0
              ELSE NaN)                           \* sqrt(-Infinity), 0 / 0
      ELSE IF wavelength < 0 THEN NaN
      ELSE IF wavelength = 0 THEN 0
      ELSE wUm

\* lines 169-240: the part of computeCavityMode after the argument checks
viewerSolveMode(r1, r2, length, wavelength, nCenter, u) ==
  LET M == viewerRoundTrip(r1, r2, length)
      A == M[1][1]
      C == M[2][1]
      D == M[2][2]
      g1 == RSub(RInt(1), Rat(length, r1))
      g2 == RSub(RInt(1), Rat(length, r2))
  IN  IF viewerStabilityViolated(RAbs(RHalf(RAdd(A, D))))
        THEN [error |-> Msg(ERR_UNSTABLE, toFixed(g1, 4), toFixed(g2, 4),
                            toFixed(RMul(g1, g2), 4)),
              mode |-> NoMode]
      ELSE IF viewerDegenerateC(C, u)
        THEN [error |-> Msg(ERR_PLANAR, 0, 0, 0), mode |-> NoMode]
      ELSE [error |-> NoError,
            mode |-> [some |-> TRUE, g1 |-> g1, g2 |-> g2,
                      wM1 |-> viewerBeamRadius(0, length, wavelength, nCenter, u, A, C, D),
                      wM2 |-> viewerBeamRadius(viewerSampleCount - 1, length, wavelength,
                                         nCenter, u, A, C, D)]]

viewerComputeCavityMode(r1, r2, length, wavelength, nCenter, u) ==
  IF r1 <= 0 \/ r2 <= 0 THEN [error |-> Msg(ERR_ROC, 0, 0, 0), mode |-> NoMode]
  ELSE IF length <= 0 THEN [error |-> Msg(ERR_LENGTH, 0, 0, 0), mode |-> NoMode]
  ELSE IF nCenter <= 0 THEN [error |-> Msg(ERR_INDEX, 0, 0, 0), mode |-> NoMode]
  ELSE viewerSolveMode(r1, r2, length, wavelength, nCenter, u)

viewerSpecial ==
  << [label |-> "CONFOCAL", near |-> "NEAR-CONFOCAL", g1Target |-> 0, g2Target |-> 0,
      color |-> "#267246"],
     [label |-> "CONCENTRIC", near |-> "NEAR-CONCENTRIC", g1Target |-> -1, g2Target |-> -1,
      color |-> "#8a5a00"],
     [label |-> "PLANAR", near |-> "NEAR-PLANAR", g1Target |-> 1, g2Target |-> 1,
      color |-> "#8a5a00"] >>

viewerWithin(g, target, tol) == RLe(RAbs(RSub(g, RInt(target))), tol)

RECURSIVE viewerFirstMatch(_, _, _, _)
viewerFirstMatch(g1, g2, tol, k) ==
  IF k > Len(viewerSpecial) THEN 0
  ELSE IF viewerWithin(g1, viewerSpecial[k].g1Target, tol) /\ viewerWithin(g2, viewerSpecial[k].g2Target, tol)
    THEN k
  ELSE viewerFirstMatch(g1, g2, tol, k + 1)

viewerStabilityLabel(g1, g2) ==
  LET exact == viewerFirstMatch(g1, g2, VIEWER_EXACT_TOL, 1)
      near == viewerFirstMatch(g1, g2, VIEWER_NEAR_TOL, 1)
      p == RMul(g1, g2)
  IN  IF exact # 0 THEN <<viewerSpecial[exact].label, viewerSpecial[exact].color>>
      ELSE IF near # 0 THEN <<viewerSpecial[near].near, viewerSpecial[near].color>>
      ELSE IF RLe(RInt(0), p) /\ RLe(p, RInt(1)) THEN <<"STABLE", "#267246">>
      ELSE <<"UNSTABLE", "#b33f3f">>

\* render() of app.js after its syncCenteredControl and syncLinearControl
\* calls: the const declarations, the try block and the three drawing calls
viewerSolve(st1) ==
  CHOOSE r \in
    { [state |-> st1, args |-> a,
       seen |-> [rendered |-> TRUE, mode |-> out.mode, errorText |-> out.error,
                 g1 |-> g.g1, g2 |-> g.g2, label |-> viewerStabilityLabel(g.g1, g.g2)]] :
      a \in {ArgsOf(st1)},
      g \in {[g1 |-> RSub(RInt(1), Rat(st1.lMm, st1.r1Mm)),
              g2 |-> RSub(RInt(1), Rat(st1.lMm, st1.r2Mm))]},
      out \in {viewerComputeCavityMode(st1.r1Mm, st1.r2Mm, st1.lMm, st1.wavelengthNm,
                                 st1.nCenter, 0)} } : TRUE

\* what one run of render() of app.js does
viewerRender(st) == CHOOSE r \in {viewerSolve(st1) : st1 \in {ViewerSyncAll(st)}} : TRUE

(***************************************************************************)
(* State.                                                                  *)
(*   call, ret     one call of a core function and what it returned        *)
(*   page, loaded  which page the browser shows, and whether its script    *)
(*                 has run                                                 *)
(*   search        the query string the mode-scan page was opened with     *)
(*   cavityState, cavityMode, cavityError, state, renderPending,           *)
(*   basisCache    the module-level variables of the mode-scan page        *)
(*   frames        animation-frame callbacks requested and not yet run     *)
(*   matchDisabled matchBeamButton.disabled                                *)
(*   viewerState   the variable state of app.js                            *)
(*   obs           what the last step did: the event handled, the call of  *)
(*                 computeCavityMode it made, the render it ran            *)
(***************************************************************************)
VARIABLES call, ret, page, loaded, search, cavityState, cavityMode, cavityError,
          state, renderPending, frames, basisCache, matchDisabled, viewerState, obs

coreVars == <<call, ret>>
scanVars == <<search, cavityState, cavityMode, cavityError, state, renderPending,
              frames, basisCache, matchDisabled>>
pageVars == <<page, loaded, viewerState, obs>>
vars == <<call, ret, page, loaded, search, cavityState, cavityMode, cavityError,
          state, renderPending, frames, basisCache, matchDisabled, viewerState, obs>>

NoCall ==
  [fn |-> "", r1 |-> 0, r2 |-> 0, length |-> 0, wavelength |-> 0, nCenter |-> 0,
   u |-> 0, g1 |-> RInt(0), g2 |-> RInt(0)]
NotReturned == [done |-> FALSE, error |-> NoError, mode |-> NoMode, label |-> <<"", "">>]

NoSearch == [key \in CavityKeys |-> Absent]
NoObs ==
  [event |-> "", ccmCalled |-> FALSE, ccmArgs |-> NoArgs, seen |-> NoRender,
   viewerSeen |-> NoViewerSeen]

\* no script has run
ScriptsIdle ==
  /\ loaded = FALSE
  /\ search = NoSearch
  /\ cavityState = DEFAULT_CAVITY_STATE
  /\ cavityMode = NoMode
  /\ cavityError = NoError
  /\ state = BlankState
  /\ renderPending = FALSE
  /\ frames = 0
  /\ basisCache = {}
  /\ matchDisabled = FALSE
  /\ viewerState = DEFAULT_STATE
  /\ obs = NoObs

(***************************************************************************)
(* The core functions on their own: Init draws the arguments, the actions  *)
(* apply the function.                                                     *)
(***************************************************************************)
\* lengths tried, in length units; with u = BigUnit one unit is 10^BigUnit / LenQ mm
LenTried == {-20, 0, 2, 4, 20, 60, 80, 96, 100, 104, 200}
BigUnit == 18
UnitTried == {0, BigUnit}
WavelengthTried == {780}
IndexTried == {-100, 0, 100}
\* g values tried on stabilityLabel, as numerators over GQ
GTried == {-20000, -10801, -10800, -10011, -10010, -10000, -9990, -9989, -9200,
           -9199, -801, -800, -11, -10, 0, 10, 11, 800, 801, 5000, 9199, 9200,
           9989, 9990, 10000, 10010, 10011, 10800, 10801, 20000}

ModeCalls ==
  [fn : {"computeCavityMode"}, r1 : LenTried, r2 : LenTried, length : LenTried,
   wavelength : WavelengthTried, nCenter : IndexTried, u : UnitTried,
   g1 : {RInt(0)}, g2 : {RInt(0)}]
LabelCalls ==
  [fn : {"stabilityLabel"}, r1 : {0}, r2 : {0}, length : {0}, wavelength : {0},
   nCenter : {0}, u : {0},
   g1 : {Rat(n, GQ) : n \in GTried}, g2 : {Rat(n, GQ) : n \in GTried}]

CoreInit ==
  /\ call \in ModeCalls \cup LabelCalls
  /\ ret = NotReturned
  /\ page = "none"
  /\ ScriptsIdle

CallComputeCavityMode ==
  /\ call.fn = "computeCavityMode"
  /\ ~ret.done
  /\ LET out == computeCavityMode(call.r1, call.r2, call.length, call.wavelength,
                                  call.nCenter, call.u)
     IN  ret' = [done |-> TRUE, error |-> out.error, mode |-> out.mode,
                 label |-> <<"", "">>]
  /\ UNCHANGED <<call, scanVars, pageVars>>

CallStabilityLabel ==
  /\ call.fn = "stabilityLabel"
  /\ ~ret.done
  /\ ret' = [done |-> TRUE, error |-> NoError, mode |-> NoMode,
             label |-> stabilityLabel(call.g1, call.g2)]
  /\ UNCHANGED <<call, scanVars, pageVars>>

CoreNext == CallComputeCavityMode \/ CallStabilityLabel

SpecCore == CoreInit /\ [][CoreNext]_vars

(***************************************************************************)
(* The mode-scan page.                                                     *)
(***************************************************************************)
\* query strings the page is opened with; numbers are in the units of the
\* field (1 / LenQ mm, nm, 1 / NQ)
Query(r1, r2, l, w, n) ==
  [r1Mm |-> r1, r2Mm |-> r2, lMm |-> l, wavelengthNm |-> w, nCenter |-> n]
Searches ==
  { Query(NumParam(50 * LenQ), NumParam(50 * LenQ), NumParam(40 * LenQ),
          NumParam(780), NumParam(NQ)),
    Query(NumParam(50 * LenQ), NumParam(40 * LenQ), NumParam(40 * LenQ),
          NumParam(780), NumParam(NQ)),
    Query(NumParam(40 * LenQ), NumParam(50 * LenQ), NumParam(40 * LenQ),
          NumParam(780), NumParam(NQ)),
    Query(NumParam(10 * LenQ), NumParam(10 * LenQ), NumParam(30 * LenQ),
          NumParam(780), NumParam(NQ)),
    Query(NumParam(-5 * LenQ), NumParam(5000 * LenQ), TextParam, InfinityParam,
          NumParam(NQ \div 2)),
    Query(NumParam(50 * LenQ + 1), NumParam(50 * LenQ), EmptyParam,
          NumParam(5000), NumParam(10 * NQ)),
    NoSearch }

\* control events: a slider delivers a value of its range, on its step; a
\* number field delivers any double, NaN when it holds no number
SliderEvents ==
  { <<"nMax", 3 * LenQ>>, <<"beamWaistMm", 200 * FineQ>> }
NumberEvents ==
  { <<"xOffUm", 3 * LenQ + 1>>, <<"yOffUm", -5 * LenQ>>, <<"scanRangeFsr", 7 * LenQ>>,
    <<"nMax", NaN>>, <<"beamWaistMm", 200 * FineQ + 1>>, <<"beamRocMm", 1>> }

ScanInit ==
  /\ call = NoCall
  /\ ret = NotReturned
  /\ page = "scan"
  /\ ScriptsIdle

\* mutant: renderPending is set but no animation frame is requested
scheduleRender_NoFrame ==
  IF renderPending THEN UNCHANGED <<renderPending, frames>>
  ELSE renderPending' = TRUE /\ frames' = frames

\* mutant: a frame is requested on every call, pending or not
scheduleRender_EveryCall == renderPending' = TRUE /\ frames' = frames + 1

\* scheduleRender()
scheduleRender ==
  IF renderPending THEN UNCHANGED <<renderPending, frames>>
  ELSE renderPending' = TRUE /\ frames' = frames + 1

\* mutant: init() leaves the Match button enabled
ScanLoad_MatchEnabled(q) ==
  /\ page = "scan" /\ ~loaded
  /\ \E cs \in {readCavityStateFromSearch(q)} :
     \E out \in {computeCavityMode(cs.r1Mm, cs.r2Mm, cs.lMm, cs.wavelengthNm,
                                   cs.nCenter, 0)} :
     \E st0 \in {SyncAll(InitialState(out.mode, cs))} :
     \E r \in {render(out.mode, out.error, cs, st0, {})} :
         /\ search' = q
         /\ cavityState' = cs
         /\ cavityMode' = out.mode
         /\ cavityError' = out.error
         /\ matchDisabled' = FALSE
         /\ state' = r.state
         /\ basisCache' = r.cache
         /\ obs' = [event |-> "load", ccmCalled |-> TRUE, ccmArgs |-> ArgsOf(cs),
                    seen |-> r.seen, viewerSeen |-> NoViewerSeen]
  /\ loaded' = TRUE
  /\ UNCHANGED <<call, ret, page, renderPending, frames, viewerState>>

\* the script of the page: the module-level statements, then init()
ScanLoad(q) ==
  /\ page = "scan" /\ ~loaded
  /\ \E cs \in {readCavityStateFromSearch(q)} :
     \E out \in {computeCavityMode(cs.r1Mm, cs.r2Mm, cs.lMm, cs.wavelengthNm,
                                   cs.nCenter, 0)} :
     \E st0 \in {SyncAll(InitialState(out.mode, cs))} :
     \E r \in {render(out.mode, out.error, cs, st0, {})} :
         /\ search' = q
         /\ cavityState' = cs
         /\ cavityMode' = out.mode
         /\ cavityError' = out.error
         /\ matchDisabled' = (out.error # NoError)
         /\ state' = r.state
         /\ basisCache' = r.cache
         /\ obs' = [event |-> "load", ccmCalled |-> TRUE, ccmArgs |-> ArgsOf(cs),
                    seen |-> r.seen, viewerSeen |-> NoViewerSeen]
  /\ loaded' = TRUE
  /\ UNCHANGED <<call, ret, page, renderPending, frames, viewerState>>

\* slider "input" listener
SliderInput(key, v) ==
  /\ page = "scan" /\ loaded
  /\ state' = [state EXCEPT ![key] = v]
  /\ scheduleRender
  /\ obs' = [NoObs EXCEPT !.event = "slider"]
  /\ UNCHANGED <<call, ret, page, loaded, search, cavityState, cavityMode,
                 cavityError, basisCache, matchDisabled, viewerState>>

\* handleNumberEdit, the number "change" listener
NumberChange(key, v) ==
  /\ page = "scan" /\ loaded
  /\ IF ~NumberIsFinite(v)
       THEN UNCHANGED <<state, renderPending, frames>>
       ELSE /\ state' = syncControl([state EXCEPT ![key] = v], key)
            /\ scheduleRender
  /\ obs' = [NoObs EXCEPT !.event = "number"]
  /\ UNCHANGED <<call, ret, page, loaded, search, cavityState, cavityMode,
                 cavityError, basisCache, matchDisabled, viewerState>>

\* window "resize" listener
Resize ==
  /\ page = "scan" /\ loaded
  /\ scheduleRender
  /\ obs' = [NoObs EXCEPT !.event = "resize"]
  /\ UNCHANGED <<call, ret, page, loaded, search, cavityState, cavityMode,
                 cavityError, state, basisCache, matchDisabled, viewerState>>

\* mutant: the click resets the two offsets as well as the beam
MatchClick_ResetsOffsets ==
  /\ page = "scan" /\ loaded
  /\ ~matchDisabled
  /\ LET matched == matchedBeamDefaults(cavityMode, cavityState)
         st1 == [state EXCEPT !.beamWaistMm = matched.beamWaistMm,
                              !.beamRocMm = matched.beamRocMm,
                              !.xOffUm = 0, !.yOffUm = 0]
     IN  state' = syncControl(syncControl(st1, "beamWaistMm"), "beamRocMm")
  /\ scheduleRender
  /\ obs' = [NoObs EXCEPT !.event = "match"]
  /\ UNCHANGED <<call, ret, page, loaded, search, cavityState, cavityMode,
                 cavityError, basisCache, matchDisabled, viewerState>>

\* resetToMatchedBeam, the "click" listener of the Match button; a disabled
\* button delivers no click
MatchClick ==
  /\ page = "scan" /\ loaded
  /\ ~matchDisabled
  /\ LET matched == matchedBeamDefaults(cavityMode, cavityState)
         st1 == [state EXCEPT !.beamWaistMm = matched.beamWaistMm,
                              !.beamRocMm = matched.beamRocMm]
     IN  state' = syncControl(syncControl(st1, "beamWaistMm"), "beamRocMm")
  /\ scheduleRender
  /\ obs' = [NoObs EXCEPT !.event = "match"]
  /\ UNCHANGED <<call, ret, page, loaded, search, cavityState, cavityMode,
                 cavityError, basisCache, matchDisabled, viewerState>>

\* the requestAnimationFrame callback of scheduleRender
AnimationFrame ==
  /\ page = "scan" /\ loaded
  /\ frames > 0
  /\ frames' = frames - 1
  /\ renderPending' = FALSE
  /\ \E r \in {render(cavityMode, cavityError, cavityState, state, basisCache)} :
         /\ state' = r.state
         /\ basisCache' = r.cache
         /\ obs' = [NoObs EXCEPT !.event = "frame", !.seen = r.seen]
  /\ UNCHANGED <<call, ret, page, loaded, search, cavityState, cavityMode,
                 cavityError, matchDisabled, viewerState>>

ScanNext ==
  \/ \E q \in Searches : ScanLoad(q)
  \/ \E e \in SliderEvents : SliderInput(e[1], e[2])
  \/ \E e \in NumberEvents : NumberChange(e[1], e[2])
  \/ Resize
  \/ MatchClick
  \/ AnimationFrame

SpecScan == ScanInit /\ [][ScanNext]_vars

(***************************************************************************)
(* The main viewer page in the browser.  Every handler of app.js runs      *)
(* render() synchronously.                                                 *)
(***************************************************************************)
\* control events of the viewer: a range input delivers a value of its
\* range, on its step; a number field delivers any double, NaN when it holds
\* no number
ViewerSliderEvents ==
  { <<"r1Mm", 10 * LenQ>>, <<"r2Mm", 10 * LenQ>>, <<"lMm", 30 * LenQ>>,
    <<"lMm", 1000 * LenQ>>, <<"wavelengthNm", 400>>, <<"nCenter", 3 * NQ>> }
ViewerNumberEvents ==
  { <<"r1Mm", 50 * LenQ + 1>>, <<"r1Mm", -3 * LenQ>>, <<"r2Mm", 5000 * LenQ>>,
    <<"lMm", NaN>>, <<"lMm", 0>>, <<"wavelengthNm", 100>>, <<"nCenter", 10 * NQ>>,
    <<"yMaxMm", 0>> }

\* render() of app.js run on the state st, as the step of the event named
ViewerRendered(event, st) ==
  \E r \in {viewerRender(st)} :
    /\ viewerState' = r.state
    /\ obs' = [event |-> event, ccmCalled |-> TRUE, ccmArgs |-> r.args,
               seen |-> NoRender, viewerSeen |-> r.seen]

\* init()
ViewerLoad ==
  /\ page = "viewer" /\ ~loaded
  /\ loaded' = TRUE
  /\ ViewerRendered("load", ViewerSyncAll(viewerState))
  /\ UNCHANGED <<coreVars, scanVars, page>>

\* slider "input" listener of createCenteredControl and createLinearControl
ViewerSlider(key, v) ==
  /\ page = "viewer" /\ loaded
  /\ ViewerRendered("slider", [viewerState EXCEPT ![key] = v])
  /\ UNCHANGED <<coreVars, scanVars, page, loaded>>

\* handleNumberEdit of createCenteredControl and createLinearControl
ViewerNumber(key, v) ==
  /\ page = "viewer" /\ loaded
  /\ IF ~NumberIsFinite(v)
       THEN /\ viewerState' = viewerState
            /\ obs' = [NoObs EXCEPT !.event = "number"]
       ELSE \E def \in {ViewerDefOf(key)} :
            \E st1 \in {[viewerState EXCEPT ![key] = clamp(v, def.min, def.max)]} :
              ViewerRendered("number",
                             IF key \in GeometryKeys THEN syncCenteredControl(st1, key)
                             ELSE syncLinearControl(st1, key))
  /\ UNCHANGED <<coreVars, scanVars, page, loaded>>

\* resetDefaults, the "click" listener of the reset button
ViewerReset ==
  /\ page = "viewer" /\ loaded
  /\ ViewerRendered("reset", ViewerSyncAll(DEFAULT_STATE))
  /\ UNCHANGED <<coreVars, scanVars, page, loaded>>

\* window "resize" listener
ViewerResize ==
  /\ page = "viewer" /\ loaded
  /\ ViewerRendered("resize", viewerState)
  /\ UNCHANGED <<coreVars, scanVars, page, loaded>>

ViewerNext ==
  \/ ViewerLoad
  \/ \E e \in ViewerSliderEvents : ViewerSlider(e[1], e[2])
  \/ \E e \in ViewerNumberEvents : ViewerNumber(e[1], e[2])
  \/ ViewerReset
  \/ ViewerResize

\* the browser shows one of the two pages
PagesInit ==
  /\ call = NoCall
  /\ ret = NotReturned
  /\ page \in {"viewer", "scan"}
  /\ ScriptsIdle

PagesNext == ScanNext \/ ViewerNext

SpecPages == PagesInit /\ [][PagesNext]_vars

(***************************************************************************)
(* Claims about the core functions (checked under SpecCore).               *)
(***************************************************************************)
ModeReturned == ret.done /\ call.fn = "computeCavityMode"
LabelReturned == ret.done /\ call.fn = "stabilityLabel"
InvalidGeometryTexts == {ERR_ROC, ERR_LENGTH, ERR_INDEX}
AllPositive == call.r1 > 0 /\ call.r2 > 0 /\ call.length > 0 /\ call.nCenter > 0

\* C1: computeCavityMode raises the invalid-geometry error, and returns no
\* mode, whenever r1 <= 0, r2 <= 0, length <= 0 or nCenter <= 0, and never
\* raises it when all four are strictly positive.
C1_InvalidGeometry ==
  ModeReturned =>
    /\ ~AllPositive => (ret.error.text \in InvalidGeometryTexts /\ ~ret.mode.some)
    /\ AllPositive => ret.error.text \notin InvalidGeometryTexts

\* C1 witness: a call with positive radii and index but a non-positive length
\* has been rejected with the length message.
C1_Witness ==
  /\ ModeReturned
  /\ call.r1 > 0 /\ call.r2 > 0 /\ call.nCenter > 0 /\ call.length <= 0
  /\ ret.error.text = ERR_LENGTH
  /\ ~ret.mode.some

\* the g parameters and their product, from the formulas of the claim
G1Of(c) == RSub(RInt(1), Rat(c.length, c.r1))
G2Of(c) == RSub(RInt(1), Rat(c.length, c.r2))
\* p lies outside [0, 1] by more than half of 1e-9 (|2p - 1| > 1 + 1e-9)
HalfTolInv == 2000000000
OutsideUnitInterval(p) ==
  \/ (p.n - p.d) > (p.d \div HalfTolInv)
  \/ (-p.n) > (p.d \div HalfTolInv)

\* C2: for strictly positive arguments the unstable-cavity error is raised
\* exactly when g1*g2 is outside [0, 1] by more than the tolerance, where
\* (A + D) / 2 of the round-trip matrix equals 2*g1*g2 - 1, and its message
\* carries g1, g2 and g1*g2 (four decimals).
C2_UnstableExactly ==
  (ModeReturned /\ AllPositive) =>
    LET g1 == G1Of(call)
        g2 == G2Of(call)
        p == RMul(g1, g2)
        M == RoundTrip(call.r1, call.r2, call.length)
    IN  /\ RHalf(RAdd(M[1][1], M[2][2])) = RSub(RMul(RInt(2), p), RInt(1))
        /\ (ret.error.text = ERR_UNSTABLE) <=> OutsideUnitInterval(p)
        /\ (ret.error.text = ERR_UNSTABLE) =>
             ret.error = Msg(ERR_UNSTABLE, toFixed(g1, 4), toFixed(g2, 4), toFixed(p, 4))

\* C2 witness: r1 = r2 = 10 mm, L = 30 mm has been rejected as unstable with
\* g1 = g2 = -2.0000 and g1*g2 = 4.0000 in the message.
C2_Witness ==
  /\ ModeReturned
  /\ call.r1 = 10 * LenQ /\ call.r2 = 10 * LenQ /\ call.length = 30 * LenQ
  /\ call.nCenter > 0
  /\ ret.error = Msg(ERR_UNSTABLE, -20000, -20000, 40000)

\* the classification as the claim words it
BothWithin(g1, g2, t, tol) ==
  /\ RLe(RAbs(RSub(g1, RInt(t))), tol)
  /\ RLe(RAbs(RSub(g2, RInt(t))), tol)
ClaimedLabel(g1, g2) ==
  IF BothWithin(g1, g2, 0, EXACT_TOL) THEN "CONFOCAL"
  ELSE IF BothWithin(g1, g2, -1, EXACT_TOL) THEN "CONCENTRIC"
  ELSE IF BothWithin(g1, g2, 1, EXACT_TOL) THEN "PLANAR"
  ELSE IF BothWithin(g1, g2, 0, NEAR_TOL) THEN "NEAR-CONFOCAL"
  ELSE IF BothWithin(g1, g2, -1, NEAR_TOL) THEN "NEAR-CONCENTRIC"
  ELSE IF BothWithin(g1, g2, 1, NEAR_TOL) THEN "NEAR-PLANAR"
  ELSE IF RLe(RInt(0), RMul(g1, g2)) /\ RLe(RMul(g1, g2), RInt(1)) THEN "STABLE"
  ELSE "UNSTABLE"

\* C3: stabilityLabel returns the exact name within 1e-3 of a special point,
\* else NEAR-<name> within 0.08, else STABLE if 0 <= g1*g2 <= 1, else
\* UNSTABLE, the exact test before the near test before the product test.
C3_LabelCascade ==
  LabelReturned => ret.label[1] = ClaimedLabel(call.g1, call.g2)

\* C3 witness: a pair exactly 1e-3 away from (0, 0) in both coordinates, which
\* passes the exact and the near test, has been labelled CONFOCAL.
C3_Witness ==
  /\ LabelReturned
  /\ RAbs(call.g1) = EXACT_TOL /\ RAbs(call.g2) = EXACT_TOL
  /\ ret.label[1] = "CONFOCAL"

WithinCallerLimits ==
  /\ call.u = 0
  /\ \A v \in {call.r1, call.r2, call.length} :
       CAVITY_LIMITS.lMm.min <= v /\ v <= CAVITY_LIMITS.lMm.max

\* C4 as stated: every geometry with strictly positive arguments that
\* stabilityLabel calls STABLE is solved without an error.
C4_StableAlwaysSolved ==
  (/\ ModeReturned /\ AllPositive /\ call.wavelength > 0
   /\ stabilityLabel(G1Of(call), G2Of(call))[1] = "STABLE")
    => (ret.error = NoError /\ ret.mode.some)

\* C4 amended: every geometry inside the caller limits (r1, r2, L in
\* [1, 1000] mm, positive wavelength and index) that stabilityLabel calls
\* STABLE is solved without an error.
C4_StableSolvedInLimits ==
  (/\ ModeReturned /\ AllPositive /\ call.wavelength > 0 /\ WithinCallerLimits
   /\ stabilityLabel(G1Of(call), G2Of(call))[1] = "STABLE")
    => (ret.error = NoError /\ ret.mode.some)

\* C4 witness: r1 = r2 = 50 mm, L = 40 mm, 780 nm, index 1.0 is labelled
\* STABLE with g1 = g2 = 1/5 and has been solved.
C4_Witness ==
  /\ ModeReturned /\ WithinCallerLimits
  /\ call.r1 = 50 * LenQ /\ call.r2 = 50 * LenQ /\ call.length = 40 * LenQ
  /\ call.wavelength = 780 /\ call.nCenter = NQ
  /\ stabilityLabel(G1Of(call), G2Of(call))[1] = "STABLE"
  /\ ret.error = NoError /\ ret.mode.some
  /\ ret.mode.g1 = Rat(1, 5) /\ ret.mode.g2 = Rat(1, 5)

(***************************************************************************)
(* Claims about the mode-scan page (checked under SpecScan) and about the  *)
(* calls either page makes (checked under SpecPages).                      *)
(***************************************************************************)
LoadFailed == loaded /\ cavityError # NoError

\* C5: every render of the mode-scan page hands the plots and the summary
\* exactly one of a simulation result and an error text: with a failed
\* solver or a thrown simulateModeScan it is the message and the null
\* result, with no field of a result; otherwise a result and no error text.
C5_ResultXorError ==
  obs.seen.rendered =>
    /\ obs.seen.result.some # (obs.seen.errorText # NoError)
    /\ obs.seen.errorText # NoError => obs.seen.result = NoResult
    /\ cavityError # NoError => obs.seen.errorText = cavityError
    /\ cavityError = NoError => obs.seen.result.some

\* C5 witness: a frame rendered after a failed load shows the message of
\* the solver and the null result.
C5_Witness ==
  /\ obs.event = "frame" /\ obs.seen.rendered
  /\ cavityError.text = ERR_UNSTABLE
  /\ obs.seen.errorText = cavityError /\ obs.seen.result = NoResult

\* C6: once the solver has failed at load, a later event runs neither
\* computeCavityMode nor simulateModeScan, every later render shows the
\* message of the load, and the Match button stays disabled.
C6_FailedLoadIsTerminal ==
  [][LoadFailed =>
       /\ cavityError' = cavityError /\ cavityMode' = cavityMode
       /\ ~obs'.ccmCalled /\ ~obs'.seen.simCalled
       /\ obs'.seen.rendered => (obs'.seen.errorText = cavityError
                                  /\ obs'.seen.result = NoResult)
       /\ matchDisabled /\ matchDisabled' /\ obs'.event # "match"]_vars

\* C6 witness: after a failed load a slider was moved and the frame that
\* followed was rendered.
C6_Witness ==
  /\ LoadFailed /\ obs.event = "frame" /\ obs.seen.rendered
  /\ state.nMax = 3 * LenQ /\ matchDisabled

\* the error of the call of computeCavityMode the last step made
CallError == IF page = "viewer" THEN obs.viewerSeen.errorText ELSE cavityError

ArgWithin(v, limits) == NumberIsFinite(v) /\ limits.min <= v /\ v <= limits.max

\* C7: whenever either page calls computeCavityMode, r1, r2 and L are in
\* [1, 1000] mm, the wavelength in [400, 2000] nm and the index in [1, 3],
\* and the call does not raise the invalid-geometry error.
C7_CallsWithinLimits ==
  obs.ccmCalled =>
    /\ ArgWithin(obs.ccmArgs.r1, CAVITY_LIMITS.r1Mm)
    /\ ArgWithin(obs.ccmArgs.r2, CAVITY_LIMITS.r2Mm)
    /\ ArgWithin(obs.ccmArgs.length, CAVITY_LIMITS.lMm)
    /\ ArgWithin(obs.ccmArgs.wavelength, CAVITY_LIMITS.wavelengthNm)
    /\ ArgWithin(obs.ccmArgs.nCenter, CAVITY_LIMITS.nCenter)
    /\ CallError.text \notin InvalidGeometryTexts

\* C7 witness: the viewer has called the solver after a number field was
\* given a negative radius, with the radius at the lower limit.
C7_Witness ==
  /\ page = "viewer" /\ obs.event = "number" /\ obs.ccmCalled
  /\ obs.ccmArgs.r1 = CAVITY_LIMITS.r1Mm.min
  /\ obs.viewerSeen.rendered

InRange(key, v) == NumberIsFinite(v) /\ DefOf(key).min <= v /\ v <= DefOf(key).max

\* C8 as stated: at every call of simulateModeScan each scan input is a
\* finite number inside the range of its control, the maximum order an
\* integer.
C8_ScanInputsInRange ==
  obs.seen.simCalled =>
    /\ \A key \in SimKeys : InRange(key, obs.seen.simIn[key])
    /\ obs.seen.simIn.nMax % LenQ = 0

\* C9: a getBasis call whose key is already in the cache returns the
\* basis object cached under that key, and an entry of the cache, once
\* inserted, stays in it unchanged; no key has two entries.
C9_CacheKeepsIdentity ==
  [][/\ \A e \in basisCache :
          /\ e \in basisCache'
          /\ (obs'.seen.simCalled /\ obs'.seen.key = e.key)
               => (obs'.seen.hit /\ obs'.seen.basis = e.basis)
     /\ \A e1, e2 \in basisCache' : e1.key = e2.key => e1 = e2]_vars

\* C9 witness: with two bases cached, a run has asked for a key already
\* in the cache and was handed the cached object.
C9_Witness ==
  /\ obs.seen.simCalled /\ obs.seen.hit
  /\ Cardinality(basisCache) >= 2
  /\ [key |-> obs.seen.key, basis |-> obs.seen.basis] \in basisCache

\* C10 as stated: the result of a run of simulateModeScan is the result a
\* fresh computation (with an empty cache) gives from the same cavity
\* state and scan inputs.
C10_ResultIsFunctionOfInputs ==
  obs.seen.simCalled =>
    obs.seen.result =
      simulateModeScan(cavityMode, cavityError, cavityState, obs.seen.simIn, {}).result

(***************************************************************************)
(* Mode-scan page: the numeric kernels of simulateModeScan.  Signal values *)
(* (the detector trace and the camera image before normalisation) are      *)
(* counts of a unit of 1e-19, NaN where the double is NaN; a normalised    *)
(* value is the exact quotient, a fraction, RNaN where the double is NaN.  *)
(***************************************************************************)
RNaN == [n |-> 0, d |-> 0]

\* a > b on doubles: false when either side is NaN
NumGt(a, b) == a # NaN /\ b # NaN /\ a > b
RGt(a, b) == a # RNaN /\ b # RNaN /\ RLt(b, a)

\* a / b for a signal value a and a positive or NaN divisor b
Quotient(a, b) == IF a = NaN \/ b = NaN THEN RNaN ELSE Rat(a, b)

\* the 1e-18 floor of normalize, in signal units
PeakFloor == 10

\* maxValue(values): the loop over the indices lo..hi in order, max being
\* the running maximum on entry (the range is run as its two halves, one
\* after the other)
RECURSIVE maxValueOver(_, _, _, _)
maxValueOver(values, lo, hi, max) ==
  IF lo > hi THEN max
  ELSE IF lo = hi THEN (IF NumGt(values[lo], max) THEN values[lo] ELSE max)
  ELSE CHOOSE r \in
         { maxValueOver(values, mid + 1, hi, left) :
             mid \in {(lo + hi) \div 2},
             left \in {maxValueOver(values, lo, (lo + hi) \div 2, max)} } : TRUE

maxValue(values) == maxValueOver(values, 1, Len(values), NegInf)

\* normalize(values)
normalize(values) ==
  CHOOSE r \in
    { [values |-> [i \in 1..Len(values) |-> Quotient(values[i], peak)], peak |-> peak] :
        peak \in {MathMax(maxValue(values), PeakFloor)} } : TRUE

\* the peakIndex loop of simulateModeScan over the normalised trace: the
\* (0-based) indices lo..hi in order, peakIndex being the best so far on
\* entry (the range is run as its two halves, one after the other)
RECURSIVE peakIndexOver(_, _, _, _)
peakIndexOver(trace, lo, hi, peakIndex) ==
  IF lo > hi THEN peakIndex
  ELSE IF lo = hi
    THEN (IF RGt(trace[lo + 1], trace[peakIndex + 1]) THEN lo ELSE peakIndex)
  ELSE CHOOSE r \in
         { peakIndexOver(trace, mid + 1, hi, left) :
             mid \in {(lo + hi) \div 2},
             left \in {peakIndexOver(trace, lo, (lo + hi) \div 2, peakIndex)} } : TRUE

PeakIndexOf(trace) == peakIndexOver(trace, 1, Len(trace) - 1, 0)

\* The detector trace of an on-axis, mode-matched input (all power in order
\* 0) at scan sample i (0-based) for a scan range of scanRangeFsr.  The
\* round-trip phase phi = 2 k dL[i] is 2 pi scanRangeFsr (2 i - (nScan - 1))
\* / (nScan - 1), and |H|^2 = t^4 / (1 + r^4 - 2 r^2 cos(phi)) grows strictly
\* with cos(phi), that is as phi nears a multiple of 2 pi.  The value kept is
\* the distance of phi to the farthest phase, in steps of 2 pi / (nScan - 1),
\* in signal units above the floor: it orders the samples as |H|^2 does and
\* is equal where |H|^2 is equal.
PhaseSteps(i, scanRangeFsr) ==
  (scanRangeFsr * (2 * i - (FIXED_SETTINGS.nScan - 1))) % (FIXED_SETTINGS.nScan - 1)

MatchedSignal(i, scanRangeFsr) ==
  LET steps == PhaseSteps(i, scanRangeFsr)
      off == IF 2 * steps <= FIXED_SETTINGS.nScan - 1 THEN steps
             ELSE FIXED_SETTINGS.nScan - 1 - steps
  IN  PeakFloor * (FIXED_SETTINGS.nScan - off)

MatchedTrace(scanRangeFsr) ==
  [i \in 1..FIXED_SETTINGS.nScan |-> MatchedSignal(i - 1, scanRangeFsr)]

(***************************************************************************)
(* hermiteTable(xValues, maxOrder) on integer samples.                     *)
(***************************************************************************)
\* mutant: the recurrence uses 2 n in place of 2 (n - 1)
hermiteRow_WrongFactor(xValues, n, previous, previousPrevious) ==
  [i \in 1..Len(xValues) |->
     (2 * xValues[i] * previous[i]) - (2 * n * previousPrevious[i])]

\* the body of the loop over n >= 2: the row current
hermiteRow(xValues, n, previous, previousPrevious) ==
  [i \in 1..Len(xValues) |->
     (2 * xValues[i] * previous[i]) - (2 * (n - 1) * previousPrevious[i])]

\* rows n..maxOrder appended to the table (its rows 0..n-1 are filled)
RECURSIVE hermiteFrom(_, _, _, _)
hermiteFrom(xValues, maxOrder, n, table) ==
  IF n > maxOrder THEN table
  ELSE CHOOSE r \in
         { hermiteFrom(xValues, maxOrder, n1, t1) :
             n1 \in {n + 1},
             t1 \in {Append(table, hermiteRow(xValues, n, table[n], table[n - 1]))} } :
         TRUE

\* the table returned; row n of the source is table[n + 1]
hermiteTable(xValues, maxOrder) ==
  LET ones == [i \in 1..Len(xValues) |-> 1]
      twice == [i \in 1..Len(xValues) |-> 2 * xValues[i]]
  IN  IF maxOrder + 1 = 0 THEN <<>>
      ELSE IF maxOrder >= 1 THEN hermiteFrom(xValues, maxOrder, 2, <<ones, twice>>)
      ELSE <<ones>>

(***************************************************************************)
(* buildOrderImages(basis, alpha, beta, nMax): the index pairs its loops   *)
(* visit, in order, as [order, n, m].                                      *)
(***************************************************************************)
\* mutant: the inner loop starts one index late
orderVisits_LateStart(order, nMax) ==
  LET nStart == MathMax(0, order - nMax) + 1
      nEnd == MathMin(nMax, order)
  IN  [j \in 1..MathMax(0, nEnd - nStart + 1) |->
         [order |-> order, n |-> nStart + j - 1, m |-> order - (nStart + j - 1)]]

\* the pairs visited while processing one order
orderVisits(order, nMax) ==
  LET nStart == MathMax(0, order - nMax)
      nEnd == MathMin(nMax, order)
  IN  [j \in 1..MathMax(0, nEnd - nStart + 1) |->
         [order |-> order, n |-> nStart + j - 1, m |-> order - (nStart + j - 1)]]

\* the visits of the orders order..orderCount-1 appended to those made
RECURSIVE visitsFrom(_, _, _)
visitsFrom(order, nMax, made) ==
  IF order >= (2 * nMax) + 1 THEN made
  ELSE CHOOSE r \in
         { visitsFrom(o1, nMax, v1) :
             o1 \in {order + 1}, v1 \in {made \o orderVisits(order, nMax)} } : TRUE

buildOrderImagesVisits(nMax) == visitsFrom(0, nMax, <<>>)

(***************************************************************************)
(* computeTransfer: the correlation loops, and the camera accumulation of  *)
(* simulateModeScan at one pixel.  A complex sample is [re, im] with       *)
(* integer parts; transfer[p][i] is sample i of order p - 1; sums are      *)
(* exact and the division by dL.length gives a fraction.                   *)
(***************************************************************************)
\* the sum of f[lo..hi]
RECURSIVE SumOver(_, _, _)
SumOver(f, lo, hi) == IF lo > hi THEN 0 ELSE f[hi] + SumOver(f, lo, hi - 1)

\* mutant: the imaginary part is accumulated with the opposite sign
corrEntry_ConjugatedIm(transfer, p, q) ==
  LET n == Len(transfer[p])
      termRe == [i \in 1..n |-> (transfer[p][i].re * transfer[q][i].re)
                                + (transfer[p][i].im * transfer[q][i].im)]
      termIm == [i \in 1..n |-> (transfer[p][i].re * transfer[q][i].im)
                                - (transfer[p][i].im * transfer[q][i].re)]
  IN  [re |-> Rat(SumOver(termRe, 1, n), n), im |-> Rat(SumOver(termIm, 1, n), n)]

\* corrRe[p][q] and corrIm[p][q]
corrEntry(transfer, p, q) ==
  LET n == Len(transfer[p])
      termRe == [i \in 1..n |-> (transfer[p][i].re * transfer[q][i].re)
                                + (transfer[p][i].im * transfer[q][i].im)]
      termIm == [i \in 1..n |-> (transfer[p][i].im * transfer[q][i].re)
                                - (transfer[p][i].re * transfer[q][i].im)]
  IN  [re |-> Rat(SumOver(termRe, 1, n), n), im |-> Rat(SumOver(termIm, 1, n), n)]

\* the correlation matrix of computeTransfer
correlation(transfer) ==
  [p \in 1..Len(transfer) |-> [q \in 1..Len(transfer) |-> corrEntry(transfer, p, q)]]

\* the sum of the fractions f[lo..hi]
RECURSIVE RSumOver(_, _, _)
RSumOver(f, lo, hi) ==
  IF lo > hi THEN RInt(0) ELSE RAdd(f[hi], RSumOver(f, lo, hi - 1))

\* mutant: the product of the two images is taken without the conjugate
cameraTerm_NoConjugate(weight, imageP, imageQ) ==
  LET prodRe == (imageP.re * imageQ.re) - (imageP.im * imageQ.im)
      prodIm == (imageP.im * imageQ.re) + (imageP.re * imageQ.im)
  IN  RSub(RMul(weight.re, RInt(prodRe)), RMul(weight.im, RInt(prodIm)))

\* what one (p, q) pair adds to image[pixel]
cameraTerm(weight, imageP, imageQ) ==
  LET prodRe == (imageP.re * imageQ.re) + (imageP.im * imageQ.im)
      prodIm == (imageP.im * imageQ.re) - (imageP.re * imageQ.im)
  IN  RSub(RMul(weight.re, RInt(prodRe)), RMul(weight.im, RInt(prodIm)))

\* image[pixel] after the loops over p and q, before the clamp; images[p] is
\* orderImages[p - 1] at this pixel
cameraPixel(corr, images) ==
  LET n == Len(images)
      row == [p \in 1..n |->
                RSumOver([q \in 1..n |-> cameraTerm(corr[p][q], images[p], images[q])],
                         1, n)]
  IN  RSumOver(row, 1, n)

\* Math.max(0, value) on a fraction
clampPixel(value) == IF RLt(value, RInt(0)) THEN RInt(0) ELSE value

(***************************************************************************)
(* linspace and the detuning grid of computeTransfer in binary floating    *)
(* point.  A float is [m, e], the number m * 2^e, with m = 0 or            *)
(* 2^(MantBits-1) <= |m| < 2^MantBits; every operation rounds its exact    *)
(* result to the nearest float, ties to the even mantissa, as IEEE 754     *)
(* does for a double (whose mantissa has 53 bits).                         *)
(***************************************************************************)
MantBits == 10

FZero == [m |-> 0, e |-> 0]

\* the number of bits of n > 0
RECURSIVE BitLength(_)
BitLength(n) == IF n = 0 THEN 0 ELSE 1 + BitLength(n \div 2)

\* the float nearest to n * 2^e; sticky says that the exact value lies
\* strictly between n * 2^e and (n + 1) * 2^e, for n >= 0
FRoundPos(n, e, sticky) ==
  LET k == BitLength(n) - MantBits
  IN  IF n = 0 THEN FZero
      ELSE IF k <= 0 THEN [m |-> n * (2 ^ (-k)), e |-> e + k]
      ELSE LET q == n \div (2 ^ k)
               rem == n % (2 ^ k)
               half == 2 ^ (k - 1)
               up == rem > half \/ (rem = half /\ (sticky \/ q % 2 = 1))
               m == IF up THEN q + 1 ELSE q
           IN  IF m = 2 ^ MantBits THEN [m |-> m \div 2, e |-> e + k + 1]
               ELSE [m |-> m, e |-> e + k]

FRound(n, e, sticky) ==
  IF n >= 0 THEN FRoundPos(n, e, sticky)
  ELSE [FRoundPos(-n, e, sticky) EXCEPT !.m = -@]

FNeg(a) == [a EXCEPT !.m = -@]

\* the float of an integer of at most MantBits bits
FInt(k) == FRound(k, 0, FALSE)

FMul(a, b) == FRound(a.m * b.m, a.e + b.e, FALSE)

\* a + b, for operands whose exponents differ by at most MantBits + 2
FAdd(a, b) ==
  IF a.m = 0 THEN b
  ELSE IF b.m = 0 THEN a
  ELSE LET e == IF a.e <= b.e THEN a.e ELSE b.e
       IN  FRound(a.m * (2 ^ (a.e - e)) + b.m * (2 ^ (b.e - e)), e, FALSE)

FSub(a, b) == FAdd(a, FNeg(b))

\* a / k for an integer k > 0 of at most MantBits bits
FDivInt(a, k) ==
  LET shift == MantBits + 2
      n == Abs(a.m) * (2 ^ shift)
      q == n \div k
      r == FRoundPos(q, a.e - shift, n % k # 0)
  IN  IF a.m >= 0 THEN r ELSE FNeg(r)

\* values[i] = start + i * step
linspaceValue(start, step, i) == FAdd(start, FMul(FInt(i), step))

\* linspace(start, end, count); values[i] of the source is the (i + 1)-th
linspace(start, end, count) ==
  IF count = 1 THEN <<start>>
  ELSE CHOOSE r \in
         { [i \in 1..count |-> linspaceValue(start, step, i - 1)] :
             step \in {FDivInt(FSub(end, start), count - 1)} } : TRUE

\* dL of computeTransfer for fsrLength = wavelength / 2
detuningGrid(scanRangeFsr, fsrLength) ==
  linspace(FMul(FInt(-scanRangeFsr), fsrLength), FMul(FInt(scanRangeFsr), fsrLength),
           FIXED_SETTINGS.nScan)

(***************************************************************************)
(* The numeric kernels on their own: Init draws the arguments, the actions *)
(* apply the function.                                                     *)
(***************************************************************************)
ArrLen == 3
SignalTried == {0, 4, PeakFloor, 3 * PeakFloor, NaN}
ScanRangeTried == 1..5
XTried == {-2, -1, 0, 1, 3}
MaxOrderTried == 3
NMaxTried == 4
ScanLen == 2
ComplexTried == {[re |-> 1, im |-> 1], [re |-> 0, im |-> -1], [re |-> -2, im |-> 1]}
ImageTried == {[re |-> 1, im |-> -1], [re |-> 0, im |-> 2], [re |-> -1, im |-> 0]}
OrderCounts == {1, 2}
\* mantissas of fsrLength tried, at the exponent of a wavelength near 1 um
MantTried == {2 ^ (MantBits - 1) + k : k \in 128..160}
\* values of the fields of a state object handed to the URL builders
FieldTried ==
  [r1Mm : {Double(50 * LenQ + 1), Double(-5 * LenQ), Double(NaN), Undefined},
   r2Mm : {Double(50 * LenQ), Double(5000 * LenQ)},
   lMm : {Double(40 * LenQ), Double(0), Double(PosInf)},
   wavelengthNm : {Double(780), Double(100)},
   nCenter : {Double(NQ), Double(NQ + 33), Double(10 * NQ)}]

TransferArrays ==
  UNION {[1..n -> [1..ScanLen -> ComplexTried]] : n \in OrderCounts}

NumCalls ==
  [fn : {"normalize"}, values : [1..ArrLen -> SignalTried]]
    \cup [fn : {"peakIndex"}, scanRangeFsr : ScanRangeTried]
    \cup [fn : {"hermiteTable"}, xValues : [1..2 -> XTried], maxOrder : 0..MaxOrderTried]
    \cup [fn : {"buildOrderImages"}, nMax : 0..NMaxTried]
    \cup [fn : {"computeTransfer"}, transfer : TransferArrays]
    \cup {[fn |-> "camera", transfer |-> t, images |-> im] :
            t \in TransferArrays, im \in UNION {[1..n -> ImageTried] : n \in OrderCounts}}
    \cup [fn : {"linspace"}, scanRangeFsr : ScanRangeTried, mant : MantTried]
    \cup [fn : {"buildUrl"}, state : FieldTried]

NumInit ==
  /\ call \in {c \in NumCalls : c.fn = "camera" => Len(c.transfer) = Len(c.images)}
  /\ ret = NotReturned
  /\ page = "none"
  /\ ScriptsIdle

\* one step: the function named by the call is applied to its arguments
Returns(fn, value) ==
  /\ call.fn = fn
  /\ ~ret.done
  /\ ret' = [done |-> TRUE, value |-> value]
  /\ UNCHANGED <<call, scanVars, pageVars>>

CallNormalize == call.fn = "normalize" /\ Returns("normalize", normalize(call.values))

\* simulateModeScan from the raw trace on: normalize, then the peakIndex loop
CallPeakIndex ==
  /\ call.fn = "peakIndex"
  /\ \E pdNorm \in {normalize(MatchedTrace(call.scanRangeFsr))} :
       Returns("peakIndex", [pdSignal |-> pdNorm.values, pdPeak |-> pdNorm.peak,
                             peakIndex |-> PeakIndexOf(pdNorm.values)])

CallHermiteTable ==
  /\ call.fn = "hermiteTable"
  /\ Returns("hermiteTable", hermiteTable(call.xValues, call.maxOrder))

CallBuildOrderImages ==
  /\ call.fn = "buildOrderImages"
  /\ Returns("buildOrderImages", buildOrderImagesVisits(call.nMax))

CallComputeTransfer ==
  /\ call.fn = "computeTransfer"
  /\ Returns("computeTransfer", correlation(call.transfer))

\* simulateModeScan from the transfer samples to image[pixel]: the
\* correlation matrix, the accumulation, the clamp
CallCamera ==
  /\ call.fn = "camera"
  /\ \E corr \in {correlation(call.transfer)} :
     \E raw \in {cameraPixel(corr, call.images)} :
       Returns("camera", [raw |-> raw, clamped |-> clampPixel(raw)])

CallLinspace ==
  /\ call.fn = "linspace"
  /\ Returns("linspace", detuningGrid(call.scanRangeFsr, [m |-> call.mant, e |-> -30]))

\* both builders, and readCavityStateFromSearch on the query of each
CallBuildUrl ==
  /\ call.fn = "buildUrl"
  /\ \E viewerUrl \in {buildViewerUrl(call.state)} :
     \E scanUrl \in {buildModeScanUrl(call.state)} :
       Returns("buildUrl",
               [viewerUrl |-> viewerUrl, scanUrl |-> scanUrl,
                fromViewerUrl |-> readCavityStateFromSearch(viewerUrl.search),
                fromScanUrl |-> readCavityStateFromSearch(scanUrl.search)])

NumNext ==
  \/ CallNormalize
  \/ CallPeakIndex
  \/ CallHermiteTable
  \/ CallBuildOrderImages
  \/ CallComputeTransfer
  \/ CallCamera
  \/ CallLinspace
  \/ CallBuildUrl

SpecNum == NumInit /\ [][NumNext]_vars

(***************************************************************************)
(* Claims about the numeric kernels (checked under SpecNum).               *)
(***************************************************************************)
NumReturned(fn) == ret.done /\ call.fn = fn

InUnitRange(v) == v # RNaN /\ RLe(RInt(0), v) /\ RLe(v, RInt(1))

\* C11 as stated: every element of a normalised array is in [0, 1] and the
\* maximum element is exactly 1, at the sample that holds the declared peak.
C11_NormalizedInUnitRange ==
  NumReturned("normalize") =>
    /\ \A i \in DOMAIN ret.value.values : InUnitRange(ret.value.values[i])
    /\ \E i \in DOMAIN ret.value.values :
         ret.value.values[i] = RInt(1) /\ call.values[i] = ret.value.peak

\* C12 as stated: for an on-axis, mode-matched input and every scan range
\* 1..5 FSR the sample reported as the trace peak is within one grid step of
\* the middle sample (zero detuning).
C12_MatchedPeakAtZero ==
  NumReturned("peakIndex") =>
    Abs(ret.value.peakIndex - ((FIXED_SETTINGS.nScan - 1) \div 2)) <= 1

\* C13: hermiteTable(x, N) has N + 1 rows, row 0 = 1, row 1 = 2x, row n =
\* 2x row(n-1) - 2(n-1) row(n-2) for 2 <= n <= N, so row 2 = 4x^2 - 2; for
\* N = 0 it is the single row of ones.
C13_HermiteRecurrence ==
  NumReturned("hermiteTable") =>
    LET t == ret.value
        x == call.xValues
        N == call.maxOrder
    IN  /\ Len(t) = N + 1
        /\ \A n \in 1..(N + 1) : DOMAIN t[n] = DOMAIN x
        /\ \A i \in DOMAIN x :
             /\ t[1][i] = 1
             /\ N >= 1 => t[2][i] = 2 * x[i]
             /\ \A n \in 2..N :
                  t[n + 1][i] = 2 * x[i] * t[n][i] - 2 * (n - 1) * t[n - 1][i]
             /\ N >= 2 => t[3][i] = 4 * x[i] * x[i] - 2
        /\ N = 0 => t = <<[i \in DOMAIN x |-> 1]>>

\* C13 witness: the table of order 3 at x = 3 has been returned, with
\* H2(3) = 34 and H3(3) = 180.
C13_Witness ==
  /\ NumReturned("hermiteTable") /\ call.maxOrder = 3 /\ call.xValues[2] = 3
  /\ ret.value[3][2] = 34 /\ ret.value[4][2] = 180

InsideLimits(s) ==
  \A key \in CavityKeys :
    s[key].kind = "double" /\ ArgWithin(s[key].v, CAVITY_LIMITS[key])

C17_EachPairOnce ==
  NumReturned("buildOrderImages") =>
    LET visits == ret.value
        nMax == call.nMax
    IN  /\ \A n \in 0..nMax : \A m \in 0..nMax :
             Cardinality({j \in DOMAIN visits :
                            visits[j].n = n /\ visits[j].m = m}) = 1
        /\ \A j \in DOMAIN visits :
             /\ visits[j].n \in 0..nMax /\ visits[j].m \in 0..nMax
             /\ visits[j].order = visits[j].n + visits[j].m
        /\ \A order \in 0..(2 * nMax) :
             \E j \in DOMAIN visits : visits[j].order = order
        /\ Len(visits) = (nMax + 1) * (nMax + 1)

\* C17 witness: the 25 pairs of nMax = 4 have been visited, (4, 4) at order 8.
C17_Witness ==
  /\ NumReturned("buildOrderImages") /\ call.nMax = 4 /\ Len(ret.value) = 25
  /\ \E j \in DOMAIN ret.value : ret.value[j] = [order |-> 8, n |-> 4, m |-> 4]

\* the complex product and sum on integer pairs
CMul(a, b) == [re |-> a.re * b.re - a.im * b.im, im |-> a.re * b.im + a.im * b.re]
CConj(a) == [re |-> a.re, im |-> -a.im]
CAbs2(a) == a.re * a.re + a.im * a.im

\* the field sum_p transfer[p][i] * image_p at scan sample i
FieldAt(transfer, images, i) ==
  LET term == [p \in DOMAIN images |-> CMul(transfer[p][i], images[p])]
  IN  [re |-> SumOver([p \in DOMAIN images |-> term[p].re], 1, Len(images)),
       im |-> SumOver([p \in DOMAIN images |-> term[p].im], 1, Len(images))]

\* (1 / N) sum_i |sum_p transfer[p][i] * image_p|^2
MeanSquare(transfer, images) ==
  LET n == Len(transfer[1])
  IN  Rat(SumOver([i \in 1..n |-> CAbs2(FieldAt(transfer, images, i))], 1, n), n)

\* C18: in exact arithmetic the camera value before the clamp is
\* (1 / N) sum_i |sum_p transfer[p][i] * image_p|^2, it is not negative, and
\* the clamp leaves it as it is.
C18_CameraIsMeanSquare ==
  NumReturned("camera") =>
    /\ ret.value.raw = MeanSquare(call.transfer, call.images)
    /\ RLe(RInt(0), ret.value.raw)
    /\ ret.value.clamped = ret.value.raw

\* C18 witness: two orders whose images and transfer samples are complex
\* have been accumulated into a positive pixel.
C18_Witness ==
  /\ NumReturned("camera") /\ Len(call.images) = 2
  /\ call.images[1] = [re |-> 1, im |-> -1] /\ call.images[2] = [re |-> 0, im |-> 2]
  /\ call.transfer[1][1] = [re |-> 1, im |-> 1]
  /\ call.transfer[2][1] = [re |-> -2, im |-> 1]
  /\ RLt(RInt(0), ret.value.raw)

\* the mean over the scan of transfer[p][i] * conj(transfer[q][i])
MeanProduct(transfer, p, q) ==
  LET n == Len(transfer[p])
      term == [i \in 1..n |-> CMul(transfer[p][i], CConj(transfer[q][i]))]
  IN  [re |-> Rat(SumOver([i \in 1..n |-> term[i].re], 1, n), n),
       im |-> Rat(SumOver([i \in 1..n |-> term[i].im], 1, n), n)]

\* C19: the correlation matrix is Hermitian, its diagonal is real and not
\* negative, and each entry is the mean over the scan of
\* transfer[p][i] * conj(transfer[q][i]).
C19_CorrelationHermitian ==
  NumReturned("computeTransfer") =>
    LET corr == ret.value
    IN  \A p \in DOMAIN corr :
          /\ corr[p][p].im = RInt(0)
          /\ RLe(RInt(0), corr[p][p].re)
          /\ \A q \in DOMAIN corr :
               /\ corr[p][q].re = corr[q][p].re
               /\ corr[p][q].im = RNeg(corr[q][p].im)
               /\ corr[p][q] = MeanProduct(call.transfer, p, q)

\* C19 witness: a matrix of two orders with a non-real off-diagonal entry.
C19_Witness ==
  /\ NumReturned("computeTransfer") /\ Len(ret.value) = 2
  /\ ret.value[1][2].im # RInt(0)
  /\ ret.value[1][2].re # RInt(0)

\* C20 as stated: the detuning grid has 481 samples, starts at -S and ends
\* at +S, is symmetric (dL[i] = -dL[480 - i]) and is zero at index 240.
C20_SymmetricGrid ==
  NumReturned("linspace") =>
    LET dL == ret.value
        fsrLength == [m |-> call.mant, e |-> -30]
        nScan == FIXED_SETTINGS.nScan
    IN  /\ Len(dL) = nScan
        /\ dL[1] = FMul(FInt(-call.scanRangeFsr), fsrLength)
        /\ dL[nScan] = FMul(FInt(call.scanRangeFsr), fsrLength)
        /\ \A i \in 1..nScan : dL[i] = FNeg(dL[nScan + 1 - i])
        /\ dL[(nScan + 1) \div 2] = FZero


(***************************************************************************)
(* The order of the checks of computeCavityMode (checked under SpecCore).  *)
(***************************************************************************)
\* the round-trip element C in closed form: -2/r1 - 2/r2 + 4L/(r1 r2)
CElementOf(c) == Rat(4 * c.length - 2 * c.r1 - 2 * c.r2, c.r1 * c.r2)

\* the message of the first violated check, in the order radii, length,
\* index, stability, degeneracy; "" when every check passes
FirstViolated(c) ==
  IF c.r1 <= 0 \/ c.r2 <= 0 THEN ERR_ROC
  ELSE IF c.length <= 0 THEN ERR_LENGTH
  ELSE IF c.nCenter <= 0 THEN ERR_INDEX
  ELSE IF OutsideUnitInterval(RMul(G1Of(c), G2Of(c))) THEN ERR_UNSTABLE
  ELSE IF DegenerateC(CElementOf(c), c.u) THEN ERR_PLANAR
  ELSE ""

\* C16: computeCavityMode reports the first violated check in the order
\* radii, length, index, stability, degeneracy, and raises the near-planar
\* error only when the four earlier checks pass and |C| < 1e-14.
C16_FirstViolatedReported ==
  ModeReturned =>
    /\ ret.error.text = FirstViolated(call)
    /\ ret.error.text = ERR_PLANAR =>
         /\ AllPositive
         /\ ~OutsideUnitInterval(RMul(G1Of(call), G2Of(call)))
         /\ RoundTrip(call.r1, call.r2, call.length)[2][1] = CElementOf(call)
         /\ DegenerateC(CElementOf(call), call.u)

\* C16 witness: a cavity that is both unstable and has |C| < 1e-14
\* (r1 = 60, r2 = 200, L = 80 length units at u = BigUnit) has been rejected
\* as unstable.
C16_Witness ==
  /\ ModeReturned /\ AllPositive /\ call.u = BigUnit
  /\ call.r1 = 60 /\ call.r2 = 200 /\ call.length = 80
  /\ DegenerateC(CElementOf(call), call.u)
  /\ ret.error.text = ERR_UNSTABLE


(***************************************************************************)
(* Navigation between the two pages.  A navigation unloads the page that   *)
(* is left and starts the script of the other page from its module-level   *)
(* statements; search is window.location.search of the page shown.  The    *)
(* variables of the page that was left keep their last values, so that     *)
(* the two pages can be compared.  The other handlers of the scan page     *)
(* (SpecScan) leave cavityState and the link as they are; the script of    *)
(* the scan page runs on the query the page was opened with.               *)
(***************************************************************************)
\* the five cavity parameters of a state object, as doubles
CavityFields(st) == [key \in CavityKeys |-> Double(st[key])]
CavityPart(st) == [key \in CavityKeys |-> st[key]]

\* the Open mode scan button of the main viewer (README lines 39-40): the
\* browser goes to the scan page with the current cavity parameters
OpenModeScan ==
  /\ page = "viewer" /\ loaded
  /\ \E url \in {buildModeScanUrl(CavityFields(viewerState))} :
       /\ page' = url.page
       /\ search' = url.search
  /\ loaded' = FALSE
  /\ cavityState' = DEFAULT_CAVITY_STATE
  /\ cavityMode' = NoMode
  /\ cavityError' = NoError
  /\ state' = BlankState
  /\ renderPending' = FALSE
  /\ frames' = 0
  /\ basisCache' = {}
  /\ matchDisabled' = FALSE
  /\ obs' = [NoObs EXCEPT !.event = "open"]
  /\ UNCHANGED <<call, ret, viewerState>>

\* the Back to viewer link, whose href init() set to
\* buildViewerUrl(window.location.href, cavityState); app.js starts again
\* from const state = { ...DEFAULT_STATE }
BackToViewer ==
  /\ page = "scan" /\ loaded
  /\ \E url \in {buildViewerUrl(CavityFields(cavityState))} :
       /\ page' = url.page
       /\ search' = url.search
  /\ loaded' = FALSE
  /\ viewerState' = DEFAULT_STATE
  /\ obs' = [NoObs EXCEPT !.event = "back"]
  /\ UNCHANGED <<call, ret, cavityState, cavityMode, cavityError, state,
                 renderPending, frames, basisCache, matchDisabled>>

NavInit ==
  /\ call = NoCall
  /\ ret = NotReturned
  /\ page = "viewer"
  /\ ScriptsIdle

\* control events of the viewer tried between navigations
NavSliderEvents == { <<"r1Mm", 10 * LenQ>>, <<"nCenter", 3 * NQ>> }
NavNumberEvents == { <<"r2Mm", 5000 * LenQ>>, <<"lMm", NaN>>, <<"wavelengthNm", 100>> }

NavNext ==
  \/ ViewerLoad
  \/ \E e \in NavSliderEvents : ViewerSlider(e[1], e[2])
  \/ \E e \in NavNumberEvents : ViewerNumber(e[1], e[2])
  \/ ViewerReset
  \/ ViewerResize
  \/ OpenModeScan
  \/ ScanLoad(search)
  \/ BackToViewer

SpecNav == NavInit /\ [][NavNext]_vars

\* C15 as stated: the scan page's cavityState equals the viewer's five cavity
\* parameters at the moment Open mode scan was used, and after the Back to
\* viewer link the main viewer's five cavity parameters equal the scan
\* page's cavityState.
C15_NavigationPreserves ==
  /\ (page = "scan" /\ loaded) => cavityState = CavityPart(viewerState)
  /\ (page = "viewer" /\ loaded /\ obs.event = "load" /\ search # NoSearch) =>
       CavityPart(viewerState) = cavityState


(***************************************************************************)
(* The mode-scan page with animation frames that keep firing: a frame      *)
(* callback that has been requested is eventually run by the browser.      *)
(***************************************************************************)
\* the step that runs the outstanding frame callback; among the steps of
\* ScanNext it is the AnimationFrame step, the only one that takes a frame
\* off
FrameRuns == frames > 0 /\ frames' = frames - 1

SpecScanLive == ScanInit /\ [][ScanNext]_vars /\ WF_frames(FrameRuns)

\* the render of the last step was run on the control values the page holds
RenderedCurrent ==
  /\ obs.event = "frame"
  /\ obs.seen.rendered
  /\ obs.seen.simCalled => obs.seen.simIn = state

\* C21: on the mode-scan page every accepted parameter change and every
\* resize (each leaves renderPending set) is eventually followed by a render,
\* and that render reads the control values current when it runs, which are
\* the final values when no change follows.
C21_ChangeLeadsToRender ==
  renderPending ~> (~renderPending /\ RenderedCurrent)

\* C21 witness: after a slider input on Max HG order a frame has rendered
\* the simulation with the value the slider left.
C21_Witness ==
  /\ page = "scan" /\ loaded /\ ~renderPending /\ RenderedCurrent
  /\ obs.seen.simCalled
  /\ state.nMax = 3 * LenQ


\* C22 as stated: whenever the cavity mode is available, right after page
\* initialisation and right after every Match click state.beamWaistMm is
\* cavityMode.wM1 in mm and state.beamRocMm is cavityState.r1Mm.
C22_MatchedBeamIsMirrorMode ==
  (page = "scan" /\ loaded /\ cavityMode.some /\ obs.event \in {"load", "match"}) =>
    /\ state.beamWaistMm = WaistUnits(cavityMode.wM1)
    /\ state.beamRocMm = cavityState.r1Mm


\* C23 as stated: readCavityStateFromSearch gives a parameter its
\* DEFAULT_CAVITY_STATE value whenever it is absent from the query, empty or
\* not a finite number, and an empty query string yields DEFAULT_CAVITY_STATE.
C23_DefaultForMissing ==
  (page = "scan" /\ loaded) =>
    /\ \A key \in CavityKeys :
         search[key].kind \in {"absent", "empty", "text", "Infinity"} =>
           cavityState[key] = DEFAULT_CAVITY_STATE[key]
    /\ search = NoSearch => cavityState = DEFAULT_CAVITY_STATE


ScheduleEvents == {"slider", "number", "resize", "match"}

\* C24: at most one animation-frame callback is outstanding and
\* renderPending is true exactly while one is; a scheduleRender call made
\* while one is outstanding requests no further frame, so the calls between
\* two frames produce one render, and the frame step clears renderPending and
\* takes the callback off as it renders, so a later change schedules anew.
C24_OneFrameOutstanding ==
  [][/\ frames \in {0, 1} /\ frames' \in {0, 1}
     /\ renderPending <=> frames = 1
     /\ renderPending' <=> frames' = 1
     /\ (renderPending /\ obs'.event \in ScheduleEvents) => frames' = frames
     /\ (~renderPending /\ obs'.event \in ScheduleEvents /\ renderPending') =>
          frames' = frames + 1
     /\ obs'.event = "frame" =>
          /\ renderPending /\ frames = 1
          /\ ~renderPending' /\ frames' = 0
          /\ obs'.seen.rendered]_vars

\* C24 witness: a resize has arrived while a frame was already outstanding
\* for an earlier slider input, and one callback is outstanding.
C24_Witness ==
  /\ page = "scan" /\ loaded /\ renderPending /\ frames = 1
  /\ obs.event = "resize"
  /\ state.nMax = 3 * LenQ /\ state.beamWaistMm = 200 * FineQ


\* C25 as stated (the part on the discriminant and the mirror radii):
\* whenever computeCavityMode returns a mode, 4 - (A + D)^2 is strictly
\* positive and the beam radii wM1 and wM2 are finite numbers.
C25_ModeHasFiniteRadii ==
  (ModeReturned /\ ret.mode.some) =>
    LET M == RoundTrip(call.r1, call.r2, call.length)
    IN  /\ RLt(RAbs(RAdd(M[1][1], M[2][2])), RInt(2))
        /\ NumberIsFinite(ret.mode.wM1)
        /\ NumberIsFinite(ret.mode.wM2)


\* the symmetric confocal cavity r1 = r2 = L
Confocal(c) == c.r1 = c.r2 /\ c.r2 = c.length
\* 0 <= g1 * g2 <= 1
ProductInUnitInterval(c) ==
  LET p == RMul(G1Of(c), G2Of(c)) IN RLe(RInt(0), p) /\ RLe(p, RInt(1))

NearZeroC(c) ==
  LET num == 4 * c.length - 2 * c.r1 - 2 * c.r2
      den == c.r1 * c.r2
  IN  \/ num = 0
      \/ c.u >= 17 /\ Abs(num) * LenQ < den * Pow10(c.u - 17)

C27_UnstableIsLabelledUnstable ==
  (ModeReturned /\ AllPositive /\ ret.error.text = ERR_UNSTABLE) =>
    stabilityLabel(G1Of(call), G2Of(call))[1] = "UNSTABLE"


\* C28: the copies of computeCavityMode and stabilityLabel in app.js agree
\* with the ones of cavity-core.js: on every input both raise the same
\* message or return the same mode, and both return the same label and
\* colour.
C28_CopiesAgree ==
  /\ ModeReturned =>
       LET out == viewerComputeCavityMode(call.r1, call.r2, call.length,
                                          call.wavelength, call.nCenter, call.u)
       IN  out.error = ret.error /\ out.mode = ret.mode
  /\ LabelReturned => viewerStabilityLabel(call.g1, call.g2) = ret.label

\* C28 witness: both copies have solved r1 = r2 = 50 mm, L = 40 mm to the
\* same finite beam radii.
C28_Witness ==
  /\ ModeReturned /\ call.u = 0
  /\ call.r1 = 50 * LenQ /\ call.r2 = 50 * LenQ /\ call.length = 40 * LenQ
  /\ call.nCenter = NQ
  /\ ret.mode.some /\ NumberIsFinite(ret.mode.wM1) /\ ret.mode.wM1 > 0
  /\ viewerComputeCavityMode(call.r1, call.r2, call.length, call.wavelength,
                             call.nCenter, call.u).mode = ret.mode


\* the fields of state that are not the beam's waist or radius of curvature
OtherControls == {"xOffUm", "yOffUm", "scanRangeFsr", "nMax"}

\* C29: a click on Match changes, of the page's data, only beamWaistMm and
\* beamRocMm: the offsets, the scan range, nMax, cavityState, cavityMode,
\* cavityError and the basis cache are what they were before the click, and a
\* render is pending after it with exactly one frame requested.
C29_MatchChangesOnlyBeam ==
  [][ obs'.event = "match"
        => /\ \A key \in OtherControls : state'[key] = state[key]
           /\ cavityState' = cavityState
           /\ cavityMode' = cavityMode
           /\ cavityError' = cavityError
           /\ basisCache' = basisCache
           /\ renderPending'
           /\ frames' = 1 ]_vars

\* a click has moved the beam back to the matched one while an offset typed
\* before it is still in place and a render is pending
C29_Witness ==
  /\ page = "scan" /\ loaded
  /\ obs.event = "match"
  /\ state.xOffUm > 0
  /\ state.beamWaistMm = matchedBeamDefaults(cavityMode, cavityState).beamWaistMm
  /\ renderPending /\ frames = 1

====
